---- MODULE Spec2Model ----
(***************************************************************************)
(* A model of the districtsim core: the Tile (cell) state with its         *)
(* validated mutators and computed properties, the static rule tables,     *)
(* the GameMap (grid) with its serialization and hex geometry, and the     *)
(* AdjacencyEngine.                                                        *)
(***************************************************************************)
EXTENDS Integers, Sequences, FiniteSets, TLC

VARIABLES
  tile,     \* a single Tile under direct mutation
  call,     \* the last mutator call: its name and arguments
  threw,    \* whether the last mutator call threw
  map,      \* a GameMap: width, height, name and its ordered tile entries
  loaded,   \* the result of GameMap.fromJSON(map.toJSON()), or NoMap
  edits,    \* the number of mutator calls applied to the tiles of map
  found,    \* the last getTile lookup: its coordinate and what it returned
  snapshot, \* a GameMapData object handed to GameMap.fromJSON
  args,     \* the arguments of the last HexUtils or AdjacencyEngine call
  outcome,  \* what that call returned
  undoStack,      \* useMapState: the snapshots that undo restores
  redoStack,      \* useMapState: the snapshots that redo restores
  selectedCoords, \* useMapState: the coordinates of the selected tiles
  cityCenterState \* useMapState: cityCenter, a coordinate or Null

\* The state of useMapState next to its map.
hook == <<undoStack, redoStack, selectedCoords, cityCenterState>>

vars ==
  <<tile, call, threw, map, loaded, edits, found, snapshot, args, outcome,
    hook>>

-----------------------------------------------------------------------------
(* Bounds of the model *)

MaxWidth == 2
MaxHeight == 3
MaxSnapshotWidth == 1
MaxSnapshotHeight == 3
MaxEdits == 2

-----------------------------------------------------------------------------
(* types.ts: the closed enumerations, by their string values *)

NONE == "none"

GRASS == "grass"
PLAINS == "plains"
DESERT == "desert"
TUNDRA == "tundra"
SNOW == "snow"
COAST == "coast"
OCEAN == "ocean"
TerrainType == {GRASS, PLAINS, DESERT, TUNDRA, SNOW, COAST, OCEAN}

FLAT == "flat"
HILLS == "hills"
MOUNTAIN == "mountain"
TerrainModifier == {FLAT, HILLS, MOUNTAIN}

WOODS == "forest"
RAINFOREST == "jungle"
MARSH == "marsh"
FLOODPLAINS == "floodplains"
OASIS == "oasis"
REEF == "reef"
ICE == "ice"
VOLCANO == "volcano"
GEOTHERMAL_FISSURE == "geothermal_fissure"
FeatureType ==
  {NONE, WOODS, RAINFOREST, MARSH, FLOODPLAINS, OASIS, REEF, ICE, VOLCANO,
   GEOTHERMAL_FISSURE}

CITY_CENTER == "city_center"
HOLY_SITE == "holy_site"
CAMPUS == "campus"
THEATER_SQUARE == "theater_square"
COMMERCIAL_HUB == "commercial_hub"
HARBOR == "harbor"
INDUSTRIAL_ZONE == "industrial_zone"
WATER_PARK == "water_park"
GOVERNMENT_PLAZA == "government_plaza"
DistrictType ==
  {NONE, CITY_CENTER, HOLY_SITE, CAMPUS, THEATER_SQUARE, COMMERCIAL_HUB,
   HARBOR, INDUSTRIAL_ZONE, "entertainment_complex", WATER_PARK, "aqueduct",
   "neighborhood", "spaceport", "aerodrome", "encampment", GOVERNMENT_PLAZA,
   "diplomatic_quarter", "preserve", "dam", "canal"}

STONEHENGE == "stonehenge"
MINE == "mine"
QUARRY == "quarry"
ImprovementType ==
  {NONE, "farm", MINE, QUARRY, "lumber_mill", "pasture", "plantation", "camp",
   "fishing_boats", "oil_well", "offshore_oil_rig"}

IRON == "iron"
DYES == "dyes"
COFFEE == "coffee"
CRATER_LAKE == "crater_lake"
EVEREST == "everest"

EMPTY_YIELDS ==
  [food |-> 0, production |-> 0, gold |-> 0, science |-> 0, culture |-> 0,
   faith |-> 0]

YieldFields == {"food", "production", "gold", "science", "culture", "faith"}

-----------------------------------------------------------------------------
(* gameData.ts: the static rule tables *)

TERRAIN_DATA(terrain) ==
  CASE terrain = GRASS ->
      [yields |-> [EMPTY_YIELDS EXCEPT !.food = 2], isWater |-> FALSE]
    [] terrain = PLAINS ->
      [yields |-> [EMPTY_YIELDS EXCEPT !.food = 1, !.production = 1],
       isWater |-> FALSE]
    [] terrain = DESERT -> [yields |-> EMPTY_YIELDS, isWater |-> FALSE]
    [] terrain = TUNDRA ->
      [yields |-> [EMPTY_YIELDS EXCEPT !.food = 1], isWater |-> FALSE]
    [] terrain = SNOW -> [yields |-> EMPTY_YIELDS, isWater |-> FALSE]
    [] terrain = COAST ->
      [yields |-> [EMPTY_YIELDS EXCEPT !.food = 1, !.gold = 1],
       isWater |-> TRUE]
    [] terrain = OCEAN ->
      [yields |-> [EMPTY_YIELDS EXCEPT !.food = 1], isWater |-> TRUE]

FEATURE_DATA(feature) ==
  CASE feature = NONE -> [yields |-> EMPTY_YIELDS, validTerrains |-> {}]
    [] feature = WOODS ->
      [yields |-> [EMPTY_YIELDS EXCEPT !.production = 1],
       validTerrains |-> {GRASS, PLAINS, TUNDRA}]
    [] feature = RAINFOREST ->
      [yields |-> [EMPTY_YIELDS EXCEPT !.food = 1],
       validTerrains |-> {PLAINS}]
    [] feature = MARSH ->
      [yields |-> [EMPTY_YIELDS EXCEPT !.food = 1],
       validTerrains |-> {GRASS}]
    [] feature = FLOODPLAINS ->
      [yields |-> [EMPTY_YIELDS EXCEPT !.food = 3],
       validTerrains |-> {DESERT, GRASS, PLAINS}]
    [] feature = OASIS ->
      [yields |-> [EMPTY_YIELDS EXCEPT !.food = 3, !.gold = 1],
       validTerrains |-> {DESERT}]
    [] feature = REEF ->
      [yields |-> [EMPTY_YIELDS EXCEPT !.food = 1, !.production = 1],
       validTerrains |-> {COAST}]
    [] feature = ICE ->
      [yields |-> EMPTY_YIELDS, validTerrains |-> {COAST, OCEAN}]
    [] feature = VOLCANO ->
      [yields |-> EMPTY_YIELDS,
       validTerrains |-> {GRASS, PLAINS, DESERT, TUNDRA, SNOW}]
    [] feature = GEOTHERMAL_FISSURE ->
      [yields |-> [EMPTY_YIELDS EXCEPT !.science = 1],
       validTerrains |-> {GRASS, PLAINS, DESERT, TUNDRA, SNOW}]

RESOURCE_DATA(resource) ==
  CASE resource = "none" ->
      [category |-> "none", yields |-> EMPTY_YIELDS]
    [] resource = "bananas" ->
      [category |-> "bonus", yields |-> [EMPTY_YIELDS EXCEPT !.food = 1]]
    [] resource = "cattle" ->
      [category |-> "bonus", yields |-> [EMPTY_YIELDS EXCEPT !.food = 1]]
    [] resource = "copper" ->
      [category |-> "bonus", yields |-> [EMPTY_YIELDS EXCEPT !.gold = 2]]
    [] resource = "crabs" ->
      [category |-> "bonus", yields |-> [EMPTY_YIELDS EXCEPT !.gold = 2]]
    [] resource = "deer" ->
      [category |-> "bonus", yields |-> [EMPTY_YIELDS EXCEPT !.production = 1]]
    [] resource = "fish" ->
      [category |-> "bonus", yields |-> [EMPTY_YIELDS EXCEPT !.food = 1]]
    [] resource = "maize" ->
      [category |-> "bonus", yields |-> [EMPTY_YIELDS EXCEPT !.gold = 2]]
    [] resource = "rice" ->
      [category |-> "bonus", yields |-> [EMPTY_YIELDS EXCEPT !.food = 1]]
    [] resource = "sheep" ->
      [category |-> "bonus", yields |-> [EMPTY_YIELDS EXCEPT !.food = 1]]
    [] resource = "stone" ->
      [category |-> "bonus", yields |-> [EMPTY_YIELDS EXCEPT !.production = 1]]
    [] resource = "wheat" ->
      [category |-> "bonus", yields |-> [EMPTY_YIELDS EXCEPT !.food = 1]]
    [] resource = "amber" ->
      [category |-> "luxury", yields |-> [EMPTY_YIELDS EXCEPT !.gold = 3]]
    [] resource = "citrus" ->
      [category |-> "luxury", yields |-> [EMPTY_YIELDS EXCEPT !.food = 2]]
    [] resource = "cocoa" ->
      [category |-> "luxury", yields |-> [EMPTY_YIELDS EXCEPT !.gold = 3]]
    [] resource = "coffee" ->
      [category |-> "luxury", yields |-> [EMPTY_YIELDS EXCEPT !.culture = 1]]
    [] resource = "cotton" ->
      [category |-> "luxury", yields |-> [EMPTY_YIELDS EXCEPT !.gold = 3]]
    [] resource = "diamonds" ->
      [category |-> "luxury", yields |-> [EMPTY_YIELDS EXCEPT !.gold = 3]]
    [] resource = "dyes" ->
      [category |-> "luxury", yields |-> [EMPTY_YIELDS EXCEPT !.faith = 1]]
    [] resource = "furs" ->
      [category |-> "luxury", yields |-> [EMPTY_YIELDS EXCEPT !.food = 1, !.gold = 1]]
    [] resource = "gypsum" ->
      [category |-> "luxury", yields |-> [EMPTY_YIELDS EXCEPT !.production = 1, !.gold = 1]]
    [] resource = "honey" ->
      [category |-> "luxury", yields |-> [EMPTY_YIELDS EXCEPT !.food = 2]]
    [] resource = "incense" ->
      [category |-> "luxury", yields |-> [EMPTY_YIELDS EXCEPT !.faith = 1]]
    [] resource = "ivory" ->
      [category |-> "luxury", yields |-> [EMPTY_YIELDS EXCEPT !.production = 1, !.gold = 1]]
    [] resource = "jade" ->
      [category |-> "luxury", yields |-> [EMPTY_YIELDS EXCEPT !.culture = 1]]
    [] resource = "marble" ->
      [category |-> "luxury", yields |-> [EMPTY_YIELDS EXCEPT !.culture = 1]]
    [] resource = "mercury" ->
      [category |-> "luxury", yields |-> [EMPTY_YIELDS EXCEPT !.science = 1]]
    [] resource = "pearls" ->
      [category |-> "luxury", yields |-> [EMPTY_YIELDS EXCEPT !.faith = 1]]
    [] resource = "salt" ->
      [category |-> "luxury", yields |-> [EMPTY_YIELDS EXCEPT !.food = 1, !.gold = 1]]
    [] resource = "silk" ->
      [category |-> "luxury", yields |-> [EMPTY_YIELDS EXCEPT !.culture = 1]]
    [] resource = "silver" ->
      [category |-> "luxury", yields |-> [EMPTY_YIELDS EXCEPT !.gold = 3]]
    [] resource = "spices" ->
      [category |-> "luxury", yields |-> [EMPTY_YIELDS EXCEPT !.food = 2]]
    [] resource = "sugar" ->
      [category |-> "luxury", yields |-> [EMPTY_YIELDS EXCEPT !.food = 2]]
    [] resource = "tea" ->
      [category |-> "luxury", yields |-> [EMPTY_YIELDS EXCEPT !.culture = 1]]
    [] resource = "tobacco" ->
      [category |-> "luxury", yields |-> [EMPTY_YIELDS EXCEPT !.faith = 1]]
    [] resource = "truffles" ->
      [category |-> "luxury", yields |-> [EMPTY_YIELDS EXCEPT !.gold = 3]]
    [] resource = "whales" ->
      [category |-> "luxury", yields |-> [EMPTY_YIELDS EXCEPT !.gold = 1, !.production = 1]]
    [] resource = "wine" ->
      [category |-> "luxury", yields |-> [EMPTY_YIELDS EXCEPT !.food = 1, !.gold = 1]]
    [] resource = "horses" ->
      [category |-> "strategic", yields |-> [EMPTY_YIELDS EXCEPT !.food = 1, !.production = 1]]
    [] resource = "iron" ->
      [category |-> "strategic", yields |-> [EMPTY_YIELDS EXCEPT !.science = 1]]
    [] resource = "niter" ->
      [category |-> "strategic", yields |-> [EMPTY_YIELDS EXCEPT !.food = 1, !.production = 1]]
    [] resource = "coal" ->
      [category |-> "strategic", yields |-> [EMPTY_YIELDS EXCEPT !.production = 2]]
    [] resource = "oil" ->
      [category |-> "strategic", yields |-> [EMPTY_YIELDS EXCEPT !.production = 3]]
    [] resource = "aluminum" ->
      [category |-> "strategic", yields |-> [EMPTY_YIELDS EXCEPT !.science = 1]]
    [] resource = "uranium" ->
      [category |-> "strategic", yields |-> [EMPTY_YIELDS EXCEPT !.production = 2]]

ResourceType ==
  {"none", "bananas", "cattle", "copper", "crabs", "deer",
   "fish", "maize", "rice", "sheep", "stone", "wheat",
   "amber", "citrus", "cocoa", "coffee", "cotton", "diamonds",
   "dyes", "furs", "gypsum", "honey", "incense", "ivory",
   "jade", "marble", "mercury", "pearls", "salt", "silk",
   "silver", "spices", "sugar", "tea", "tobacco", "truffles",
   "whales", "wine", "horses", "iron", "niter", "coal",
   "oil", "aluminum", "uranium"}

NATURAL_WONDER_DATA(naturalWonder) ==
  CASE naturalWonder = "none" -> [yields |-> EMPTY_YIELDS, impassable |-> FALSE]
    [] naturalWonder = "cliffs_of_dover" -> [yields |-> [EMPTY_YIELDS EXCEPT !.culture = 3, !.gold = 2], impassable |-> TRUE]
    [] naturalWonder = "crater_lake" -> [yields |-> [EMPTY_YIELDS EXCEPT !.faith = 4, !.science = 1], impassable |-> FALSE]
    [] naturalWonder = "dead_sea" -> [yields |-> [EMPTY_YIELDS EXCEPT !.faith = 2, !.culture = 2], impassable |-> FALSE]
    [] naturalWonder = "everest" -> [yields |-> [EMPTY_YIELDS EXCEPT !.faith = 2], impassable |-> TRUE]
    [] naturalWonder = "galapagos_islands" -> [yields |-> [EMPTY_YIELDS EXCEPT !.science = 2], impassable |-> FALSE]
    [] naturalWonder = "great_barrier_reef" -> [yields |-> [EMPTY_YIELDS EXCEPT !.food = 3, !.science = 2], impassable |-> FALSE]
    [] naturalWonder = "kilimanjaro" -> [yields |-> [EMPTY_YIELDS EXCEPT !.food = 2, !.culture = 2], impassable |-> TRUE]
    [] naturalWonder = "pantanal" -> [yields |-> [EMPTY_YIELDS EXCEPT !.food = 2, !.culture = 2], impassable |-> FALSE]
    [] naturalWonder = "piopiotahi" -> [yields |-> [EMPTY_YIELDS EXCEPT !.culture = 1, !.gold = 2], impassable |-> FALSE]
    [] naturalWonder = "torres_del_paine" -> [yields |-> EMPTY_YIELDS, impassable |-> TRUE]
    [] naturalWonder = "tsingy_de_bemaraha" -> [yields |-> [EMPTY_YIELDS EXCEPT !.culture = 1, !.science = 1], impassable |-> TRUE]
    [] naturalWonder = "yosemite" -> [yields |-> [EMPTY_YIELDS EXCEPT !.gold = 1, !.science = 1], impassable |-> TRUE]
    [] naturalWonder = "zhangye_danxia" -> [yields |-> EMPTY_YIELDS, impassable |-> TRUE]
    [] naturalWonder = "bermuda_triangle" -> [yields |-> [EMPTY_YIELDS EXCEPT !.science = 5], impassable |-> FALSE]
    [] naturalWonder = "chocolate_hills" -> [yields |-> [EMPTY_YIELDS EXCEPT !.food = 2, !.production = 1], impassable |-> FALSE]
    [] naturalWonder = "delicate_arch" -> [yields |-> [EMPTY_YIELDS EXCEPT !.faith = 2, !.gold = 1], impassable |-> TRUE]
    [] naturalWonder = "eye_of_the_sahara" -> [yields |-> [EMPTY_YIELDS EXCEPT !.production = 1, !.science = 1], impassable |-> FALSE]
    [] naturalWonder = "giants_causeway" -> [yields |-> [EMPTY_YIELDS EXCEPT !.culture = 2], impassable |-> FALSE]
    [] naturalWonder = "gobustan" -> [yields |-> [EMPTY_YIELDS EXCEPT !.culture = 3, !.production = 1], impassable |-> FALSE]
    [] naturalWonder = "ha_long_bay" -> [yields |-> [EMPTY_YIELDS EXCEPT !.food = 1, !.culture = 1, !.production = 1], impassable |-> FALSE]
    [] naturalWonder = "ik_kil" -> [yields |-> [EMPTY_YIELDS EXCEPT !.faith = 1, !.science = 1], impassable |-> FALSE]
    [] naturalWonder = "lake_retba" -> [yields |-> [EMPTY_YIELDS EXCEPT !.culture = 2, !.gold = 2], impassable |-> FALSE]
    [] naturalWonder = "mato_tipila" -> [yields |-> [EMPTY_YIELDS EXCEPT !.faith = 1, !.production = 1], impassable |-> TRUE]
    [] naturalWonder = "matterhorn" -> [yields |-> [EMPTY_YIELDS EXCEPT !.culture = 1], impassable |-> TRUE]
    [] naturalWonder = "pamukkale" -> [yields |-> [EMPTY_YIELDS EXCEPT !.culture = 2, !.gold = 2], impassable |-> FALSE]
    [] naturalWonder = "roraima" -> [yields |-> [EMPTY_YIELDS EXCEPT !.faith = 1, !.science = 1], impassable |-> TRUE]
    [] naturalWonder = "sahara_el_beyda" -> [yields |-> [EMPTY_YIELDS EXCEPT !.culture = 2, !.gold = 2], impassable |-> FALSE]
    [] naturalWonder = "ubsunur_hollow" -> [yields |-> [EMPTY_YIELDS EXCEPT !.faith = 2, !.production = 1], impassable |-> FALSE]
    [] naturalWonder = "uluru" -> [yields |-> [EMPTY_YIELDS EXCEPT !.culture = 2, !.faith = 2], impassable |-> TRUE]
    [] naturalWonder = "vesuvius" -> [yields |-> EMPTY_YIELDS, impassable |-> TRUE]
    [] naturalWonder = "vinland" -> [yields |-> [EMPTY_YIELDS EXCEPT !.culture = 1, !.food = 2], impassable |-> FALSE]
    [] naturalWonder = "white_desert" -> [yields |-> [EMPTY_YIELDS EXCEPT !.culture = 1, !.science = 1], impassable |-> FALSE]

NaturalWonderType ==
  {"none", "cliffs_of_dover", "crater_lake", "dead_sea", "everest",
   "galapagos_islands", "great_barrier_reef", "kilimanjaro", "pantanal", "piopiotahi",
   "torres_del_paine", "tsingy_de_bemaraha", "yosemite", "zhangye_danxia", "bermuda_triangle",
   "chocolate_hills", "delicate_arch", "eye_of_the_sahara", "giants_causeway", "gobustan",
   "ha_long_bay", "ik_kil", "lake_retba", "mato_tipila", "matterhorn",
   "pamukkale", "roraima", "sahara_el_beyda", "ubsunur_hollow", "uluru",
   "vesuvius", "vinland", "white_desert"}
-----------------------------------------------------------------------------
(* JavaScript values: null, and the insertion-ordered Set and Map *)

Null == <<>>

Undefined == [undefined |-> TRUE]

\* A Set<number> as the sequence of its elements in insertion order.
SetHas(s, x) == \E i \in 1..Len(s) : s[i] = x

SetAdd(s, x) == IF SetHas(s, x) THEN s ELSE Append(s, x)

SetDelete(s, x) == SelectSeq(s, LAMBDA y : y # x)

RECURSIVE SetFromArray(_)
SetFromArray(a) ==
  IF a = <<>> THEN <<>>
  ELSE SetAdd(SetFromArray(SubSeq(a, 1, Len(a) - 1)), a[Len(a)])

ArrayFromSet(s) == s

Elements(s) == {s[i] : i \in 1..Len(s)}

-----------------------------------------------------------------------------
(* Tile.ts: the Tile, its validated setters and its computed properties *)

NewTile(coord) ==
  [coord |-> coord,
   terrain |-> GRASS,
   modifier |-> FLAT,
   feature |-> NONE,
   resource |-> NONE,
   district |-> NONE,
   wonder |-> NONE,
   naturalWonder |-> NONE,
   improvement |-> NONE,
   riverEdges |-> <<>>,
   ownerCityId |-> Null,
   isCityCenter |-> FALSE]

\* The outcome of a setter: the tile as the call leaves it, and whether it threw.
Returned(t) == [threw |-> FALSE, tile |-> t]

Thrown(t) == [threw |-> TRUE, tile |-> t]

\* A faulty variant: the terrain is assigned before the modifier is validated.
setTerrainAssignsFirst(t, terrain, modifier) ==
  IF modifier = MOUNTAIN /\ (terrain = COAST \/ terrain = OCEAN)
  THEN Thrown([t EXCEPT !.terrain = terrain])
  ELSE IF modifier = HILLS /\ (terrain = COAST \/ terrain = OCEAN)
  THEN Thrown([t EXCEPT !.terrain = terrain])
  ELSE Returned([t EXCEPT !.terrain = terrain, !.modifier = modifier])

\* A faulty variant: the Hills check is missing.
setTerrainNoHillsCheck(t, terrain, modifier) ==
  IF modifier = MOUNTAIN /\ (terrain = COAST \/ terrain = OCEAN)
  THEN Thrown(t)
  ELSE Returned([t EXCEPT !.terrain = terrain, !.modifier = modifier])

setTerrain(t, terrain, modifier) ==
  IF modifier = MOUNTAIN /\ (terrain = COAST \/ terrain = OCEAN)
  THEN Thrown(t)
  ELSE IF modifier = HILLS /\ (terrain = COAST \/ terrain = OCEAN)
  THEN Thrown(t)
  ELSE Returned([t EXCEPT !.terrain = terrain, !.modifier = modifier])

setFeature(t, feature) ==
  IF feature # NONE /\ t.terrain \notin FEATURE_DATA(feature).validTerrains
  THEN Thrown(t)
  ELSE Returned([t EXCEPT !.feature = feature])

setResource(t, resource) == Returned([t EXCEPT !.resource = resource])

\* A faulty variant: placing a district clears the improvement but not the feature.
setDistrictKeepsFeature(t, district) ==
  IF t.modifier = MOUNTAIN /\ district # NONE
  THEN Thrown(t)
  ELSE IF (t.terrain = COAST \/ t.terrain = OCEAN)
          /\ district # NONE /\ district # HARBOR /\ district # WATER_PARK
  THEN Thrown(t)
  ELSE LET placed == [t EXCEPT !.district = district]
       IN  IF district # NONE
           THEN Returned([placed EXCEPT !.improvement = NONE])
           ELSE Returned(placed)

setDistrict(t, district) ==
  IF t.modifier = MOUNTAIN /\ district # NONE
  THEN Thrown(t)
  ELSE IF (t.terrain = COAST \/ t.terrain = OCEAN)
          /\ district # NONE /\ district # HARBOR /\ district # WATER_PARK
  THEN Thrown(t)
  ELSE LET placed == [t EXCEPT !.district = district]
       IN  IF district # NONE
           THEN Returned([placed EXCEPT !.improvement = NONE,
                                        !.feature = NONE])
           ELSE Returned(placed)

setWonder(t, wonder) ==
  LET placed == [t EXCEPT !.wonder = wonder]
  IN  IF wonder # NONE
      THEN Returned([placed EXCEPT !.improvement = NONE])
      ELSE Returned(placed)

setNaturalWonder(t, naturalWonder) ==
  Returned([t EXCEPT !.naturalWonder = naturalWonder])

setImprovement(t, improvement) ==
  IF t.district # NONE \/ t.wonder # NONE
  THEN Thrown(t)
  ELSE Returned([t EXCEPT !.improvement = improvement])

addRiverEdge(t, edge) ==
  IF edge < 0 \/ edge > 5
  THEN Thrown(t)
  ELSE Returned([t EXCEPT !.riverEdges = SetAdd(@, edge)])

removeRiverEdge(t, edge) ==
  Returned([t EXCEPT !.riverEdges = SetDelete(@, edge)])

setOwner(t, cityId, isCityCenter) ==
  LET owned == [t EXCEPT !.ownerCityId = cityId,
                         !.isCityCenter = isCityCenter]
  IN  IF isCityCenter
      THEN Returned([owned EXCEPT !.district = CITY_CENTER])
      ELSE Returned(owned)

isWater(t) == t.terrain = COAST \/ t.terrain = OCEAN

isLand(t) == ~isWater(t)

isPassable(t) == t.modifier # MOUNTAIN /\ t.naturalWonder = NONE

hasRiver(t) == Len(t.riverEdges) > 0

isHill(t) == t.modifier = HILLS

isMountain(t) == t.modifier = MOUNTAIN

hasDistrict(t) == t.district # NONE

hasWonder(t) == t.wonder # NONE

hasNaturalWonder(t) == t.naturalWonder # NONE

resourceCategory(t) ==
  IF t.resource = NONE THEN NONE ELSE RESOURCE_DATA(t.resource).category

\* The three fields baseYields accumulates from one rule-table entry.
AddYields(yields, data) ==
  [yields EXCEPT !.food = @ + data.food,
                 !.production = @ + data.production,
                 !.gold = @ + data.gold]

baseYields(t) ==
  LET terrainYields == AddYields(EMPTY_YIELDS, TERRAIN_DATA(t.terrain).yields)
      hillYields == IF t.modifier = HILLS
                    THEN [terrainYields EXCEPT !.production = @ + 1]
                    ELSE terrainYields
      featureYields == AddYields(hillYields, FEATURE_DATA(t.feature).yields)
  IN  AddYields(featureYields, RESOURCE_DATA(t.resource).yields)

TileToJSON(t) ==
  [coord |-> t.coord,
   terrain |-> t.terrain,
   modifier |-> t.modifier,
   feature |-> t.feature,
   resource |-> t.resource,
   district |-> t.district,
   wonder |-> t.wonder,
   naturalWonder |-> t.naturalWonder,
   improvement |-> t.improvement,
   riverEdges |-> ArrayFromSet(t.riverEdges),
   ownerCityId |-> t.ownerCityId,
   isCityCenter |-> t.isCityCenter]

\* A faulty variant: the river edges of the snapshot are not restored.
TileFromJSONDropsRiverEdges(data) ==
  [NewTile(data.coord) EXCEPT
     !.terrain = data.terrain,
     !.modifier = data.modifier,
     !.feature = data.feature,
     !.resource = data.resource,
     !.district = data.district,
     !.wonder = data.wonder,
     !.naturalWonder = data.naturalWonder,
     !.improvement = data.improvement,
     !.ownerCityId = data.ownerCityId,
     !.isCityCenter = data.isCityCenter]

TileFromJSON(data) ==
  [NewTile(data.coord) EXCEPT
     !.terrain = data.terrain,
     !.modifier = data.modifier,
     !.feature = data.feature,
     !.resource = data.resource,
     !.district = data.district,
     !.wonder = data.wonder,
     !.naturalWonder = data.naturalWonder,
     !.improvement = data.improvement,
     !.riverEdges = SetFromArray(data.riverEdges),
     !.ownerCityId = data.ownerCityId,
     !.isCityCenter = data.isCityCenter]

-----------------------------------------------------------------------------
(* GameMap.ts: HexUtils keys and the GameMap with its Map<string, Tile> *)

coordToKey(coord) == ToString(coord.q) \o "," \o ToString(coord.r)

\* A Map<string, Tile> as the sequence of its entries in insertion order.
MapHas(entries, key) == \E i \in 1..Len(entries) : entries[i].key = key

MapGet(entries, key) ==
  IF MapHas(entries, key)
  THEN entries[CHOOSE i \in 1..Len(entries) : entries[i].key = key].value
  ELSE Undefined

MapSet(entries, key, value) ==
  IF MapHas(entries, key)
  THEN [i \in 1..Len(entries) |->
          IF entries[i].key = key
          THEN [key |-> key, value |-> value]
          ELSE entries[i]]
  ELSE Append(entries, [key |-> key, value |-> value])

\* The inner loop of initializeEmptyMap: the tiles of row r, q ascending.
RECURSIVE InitializeRow(_, _, _, _)
InitializeRow(entries, r, q, qEnd) ==
  IF q < qEnd
  THEN LET coord == [q |-> q, r |-> r]
       IN  InitializeRow(MapSet(entries, coordToKey(coord), NewTile(coord)),
                         r, q + 1, qEnd)
  ELSE entries

\* A faulty variant: every row spans q in [0, width), a rectangle in axial coordinates.
RECURSIVE InitializeRowsNoOffset(_, _, _, _)
InitializeRowsNoOffset(entries, width, height, r) ==
  IF r < height
  THEN InitializeRowsNoOffset(InitializeRow(entries, r, 0, width),
                              width, height, r + 1)
  ELSE entries

\* The outer loop of initializeEmptyMap: rows r, r + 1, ..., height - 1.
RECURSIVE InitializeRows(_, _, _, _)
InitializeRows(entries, width, height, r) ==
  IF r < height
  THEN LET qOffset == r \div 2
       IN  InitializeRows(
             InitializeRow(entries, r, 0 - qOffset, width - qOffset),
             width, height, r + 1)
  ELSE entries

initializeEmptyMap(width, height) == InitializeRows(<<>>, width, height, 0)

NewGameMap(width, height, name) ==
  [width |-> width,
   height |-> height,
   name |-> name,
   tiles |-> initializeEmptyMap(width, height)]

getTile(m, coord) == MapGet(m.tiles, coordToKey(coord))

isInBounds(m, coord) == MapHas(m.tiles, coordToKey(coord))

getAllTiles(m) == [i \in 1..Len(m.tiles) |-> m.tiles[i].value]

GameMapToJSON(m) ==
  [version |-> 1,
   name |-> m.name,
   width |-> m.width,
   height |-> m.height,
   tiles |-> LET allTiles == getAllTiles(m)
             IN  [i \in 1..Len(allTiles) |-> TileToJSON(allTiles[i])]]

\* The loop of GameMap.fromJSON over the first n tiles of the snapshot.
RECURSIVE LoadTiles(_, _)
LoadTiles(tilesData, n) ==
  IF n = 0
  THEN <<>>
  ELSE LET loadedTile == TileFromJSON(tilesData[n])
       IN  MapSet(LoadTiles(tilesData, n - 1), coordToKey(loadedTile.coord),
                  loadedTile)

GameMapFromJSON(data) ==
  [NewGameMap(data.width, data.height, data.name) EXCEPT
     !.tiles = LoadTiles(data.tiles, Len(data.tiles))]

-----------------------------------------------------------------------------
(* The inputs the mutators are called with *)

TerrainInputs == {GRASS, DESERT, COAST, OCEAN}

ModifierInputs == TerrainModifier

FeatureInputs == {NONE, WOODS, REEF, GEOTHERMAL_FISSURE}

ResourceInputs == {NONE, DYES}

DistrictInputs == {NONE, CAMPUS, HARBOR}

WonderInputs == {NONE, STONEHENGE}

NaturalWonderInputs == {NONE, CRATER_LAKE}

ImprovementInputs == {NONE, MINE}

EdgeInputs == {-1, 0, 6}

CityIds == {Null, <<"city-1">>}

DefaultName == "Untitled Map"

MapEdgeInputs == {5, 0}

SnapshotNames == {"m"}

Origin == [q |-> 0, r |-> 0]

Call(op, s1, s2, n, b) == [op |-> op, s1 |-> s1, s2 |-> s2, n |-> n, b |-> b]

NoCall == Call("", "", "", 0, FALSE)

NoLookup == [coord |-> Origin, result |-> Undefined, done |-> FALSE]

\* useMapState as its first render leaves it: no history, no selection, and
\* no city center on a map that was constructed.
InitHook ==
  /\ undoStack = <<>>
  /\ redoStack = <<>>
  /\ selectedCoords = <<>>
  /\ cityCenterState = Null

-----------------------------------------------------------------------------
(* Spec: one Tile, from its default state, under any sequence of mutators *)

Init ==
  /\ tile = NewTile(Origin)
  /\ call = NoCall
  /\ threw = FALSE
  /\ map = NewGameMap(0, 0, DefaultName)
  /\ loaded = <<>>
  /\ edits = 0
  /\ found = NoLookup
  /\ snapshot = Null
  /\ args = Null
  /\ outcome = Null
  /\ InitHook

\* A mutator call on the tile: the tile and the outcome it leaves.
TileCall(c, result) ==
  /\ tile' = result.tile
  /\ threw' = result.threw
  /\ call' = c
  /\ UNCHANGED <<map, loaded, edits, found, snapshot, args, outcome, hook>>

SetTerrain ==
  \E terrain \in TerrainInputs, modifier \in ModifierInputs :
    TileCall(Call("setTerrain", terrain, modifier, 0, FALSE),
             setTerrain(tile, terrain, modifier))

SetFeature ==
  \E feature \in FeatureInputs :
    TileCall(Call("setFeature", feature, "", 0, FALSE),
             setFeature(tile, feature))

SetResource ==
  \E resource \in ResourceInputs :
    TileCall(Call("setResource", resource, "", 0, FALSE),
             setResource(tile, resource))

SetDistrict ==
  \E district \in DistrictInputs :
    TileCall(Call("setDistrict", district, "", 0, FALSE),
             setDistrict(tile, district))

SetWonder ==
  \E wonder \in WonderInputs :
    TileCall(Call("setWonder", wonder, "", 0, FALSE),
             setWonder(tile, wonder))

SetNaturalWonder ==
  \E naturalWonder \in NaturalWonderInputs :
    TileCall(Call("setNaturalWonder", naturalWonder, "", 0, FALSE),
             setNaturalWonder(tile, naturalWonder))

SetImprovement ==
  \E improvement \in ImprovementInputs :
    TileCall(Call("setImprovement", improvement, "", 0, FALSE),
             setImprovement(tile, improvement))

AddRiverEdge ==
  \E edge \in EdgeInputs :
    TileCall(Call("addRiverEdge", "", "", edge, FALSE),
             addRiverEdge(tile, edge))

RemoveRiverEdge ==
  \E edge \in EdgeInputs :
    TileCall(Call("removeRiverEdge", "", "", edge, FALSE),
             removeRiverEdge(tile, edge))

SetOwner ==
  \E cityId \in CityIds, isCityCenter \in BOOLEAN :
    TileCall(Call("setOwner", IF cityId = Null THEN "" ELSE cityId[1], "",
                  Len(cityId), isCityCenter),
             setOwner(tile, cityId, isCityCenter))

Next ==
  \/ SetTerrain
  \/ SetFeature
  \/ SetResource
  \/ SetDistrict
  \/ SetWonder
  \/ SetNaturalWonder
  \/ SetImprovement
  \/ AddRiverEdge
  \/ RemoveRiverEdge
  \/ SetOwner

Spec == Init /\ [][Next]_vars

-----------------------------------------------------------------------------
(* Properties of the Tile mutators, checked under Spec *)

\* The fields that neither setDistrict nor setWonder touches.
SameFrame(before, after) ==
  /\ after.coord = before.coord
  /\ after.terrain = before.terrain
  /\ after.modifier = before.modifier
  /\ after.resource = before.resource
  /\ after.naturalWonder = before.naturalWonder
  /\ after.riverEdges = before.riverEdges
  /\ after.ownerCityId = before.ownerCityId
  /\ after.isCityCenter = before.isCityCenter

\* C1: a mutator call that throws leaves every field of the tile as it was
\* before the call, and setTerrain(Coast, Mountain) throws, leaving terrain
\* and modifier unchanged.
C1_MutatorsAllOrNothing ==
  [][/\ threw' => tile' = tile
     /\ (call'.op = "setTerrain" /\ call'.s1 = COAST /\ call'.s2 = MOUNTAIN)
          => /\ threw'
             /\ tile'.terrain = tile.terrain
             /\ tile'.modifier = tile.modifier]_vars

\* A tile moved away from its defaults on which setTerrain(Coast, Mountain)
\* has just thrown.
C1_Witness ==
  /\ threw
  /\ call.op = "setTerrain" /\ call.s1 = COAST /\ call.s2 = MOUNTAIN
  /\ tile.terrain = DESERT /\ tile.modifier = HILLS
  /\ tile.feature = GEOTHERMAL_FISSURE

\* C2: a tile with a district is never a Mountain, and a Coast or Ocean tile
\* has district None, Harbor or Water Park.
C2_DistrictPlacement ==
  /\ tile.district # NONE => tile.modifier # MOUNTAIN
  /\ tile.terrain \in {COAST, OCEAN}
       => tile.district \in {NONE, HARBOR, WATER_PARK}

\* C3: a tile with a feature has a terrain in that feature's validTerrains.
C3_FeatureOnValidTerrain ==
  tile.feature # NONE
    => tile.terrain \in FEATURE_DATA(tile.feature).validTerrains

\* C4: a tile with an improvement has neither a district nor a wonder.
C4_ImprovementAlone ==
  tile.improvement # NONE => tile.district = NONE /\ tile.wonder = NONE

\* C5: the modifier is Hills or Mountain only on a terrain that is neither
\* Coast nor Ocean.
C5_ModifierNeedsLand ==
  tile.modifier \in {HILLS, MOUNTAIN} => tile.terrain \notin {COAST, OCEAN}

\* A land tile that setTerrain has just made Hills.
C5_Witness ==
  /\ call.op = "setTerrain" /\ call.s2 = HILLS /\ ~threw
  /\ tile.modifier = HILLS /\ tile.terrain = DESERT

\* C6: a successful setDistrict(d) sets the district to d and, when d is not
\* None, clears feature and improvement; setWonder(w) sets the wonder to w
\* and, when w is not None, clears the improvement; each changes nothing
\* else, and with None clears nothing.
C6_DistrictAndWonderEffects ==
  [][/\ (call'.op = "setDistrict" /\ ~threw')
          => /\ tile'.district = call'.s1
             /\ IF call'.s1 # NONE
                THEN tile'.feature = NONE /\ tile'.improvement = NONE
                ELSE /\ tile'.feature = tile.feature
                     /\ tile'.improvement = tile.improvement
             /\ tile'.wonder = tile.wonder
             /\ SameFrame(tile, tile')
     /\ call'.op = "setWonder"
          => /\ ~threw'
             /\ tile'.wonder = call'.s1
             /\ IF call'.s1 # NONE
                THEN tile'.improvement = NONE
                ELSE tile'.improvement = tile.improvement
             /\ tile'.feature = tile.feature
             /\ tile'.district = tile.district
             /\ SameFrame(tile, tile')]_vars

\* A tile with a resource, a wonder, a river and an owner on which
\* setDistrict(Campus) has just succeeded.
C6_Witness ==
  /\ call.op = "setDistrict" /\ call.s1 = CAMPUS /\ ~threw
  /\ tile.district = CAMPUS
  /\ tile.feature = NONE /\ tile.improvement = NONE
  /\ tile.resource = DYES /\ tile.wonder = STONEHENGE
  /\ tile.riverEdges = <<0>> /\ tile.ownerCityId = <<"city-1">>

\* The sum the rule tables give for one yield field of a tile.
IntrinsicYield(t, field) ==
  TERRAIN_DATA(t.terrain).yields[field]
  + (IF field = "production" /\ t.modifier = HILLS THEN 1 ELSE 0)
  + FEATURE_DATA(t.feature).yields[field]
  + RESOURCE_DATA(t.resource).yields[field]

\* C7: in each of the six yield fields, baseYields is the sum of the
\* terrain's yields, +1 production on Hills, the feature's yields and the
\* resource's yields.
C7_BaseYieldsSumAllSources ==
  \A field \in YieldFields : baseYields(tile)[field] = IntrinsicYield(tile, field)

\* C8: isPassable is false exactly when the tile is a Mountain or holds a
\* natural wonder that the rule table marks impassable.
C8_PassableUnlessImpassable ==
  isPassable(tile)
    <=> ~(tile.modifier = MOUNTAIN
          \/ NATURAL_WONDER_DATA(tile.naturalWonder).impassable)

\* C30: in every state reachable from a default tile by any sequence of
\* mutators, a tile flagged as city center has the district City Center:
\* setOwner(id, true) forces the district, and no later mutator leaves the
\* flag on a tile with another district or none.
C30_CityCenterHasCityCenterDistrict ==
  tile.isCityCenter => tile.district = CITY_CENTER

-----------------------------------------------------------------------------
(* SpecMap: a GameMap right after new GameMap(width, height), and getTile  *)
(* lookups of coordinates inside and outside of it                         *)

\* The coordinates looked up: the region of the largest map and a margin.
Window ==
  {[q |-> q, r |-> r] : q \in (0 - MaxHeight)..(MaxWidth + 1),
                        r \in (0 - 1)..(MaxHeight + 1)}

InitMap ==
  /\ tile = NewTile(Origin)
  /\ call = NoCall
  /\ threw = FALSE
  /\ \E width \in 0..MaxWidth, height \in 0..MaxHeight :
       map = NewGameMap(width, height, DefaultName)
  /\ loaded = <<>>
  /\ edits = 0
  /\ found = NoLookup
  /\ snapshot = Null
  /\ args = Null
  /\ outcome = Null
  /\ InitHook

GetTile ==
  \E coord \in Window :
    /\ found' = [coord |-> coord, result |-> getTile(map, coord),
                 done |-> TRUE]
    /\ UNCHANGED <<tile, call, threw, map, loaded, edits, snapshot, args, outcome, hook>>

NextMap == GetTile

SpecMap == InitMap /\ [][NextMap]_vars

-----------------------------------------------------------------------------
(* SpecSnapshot: a GameMap as constructed, its tiles under mutator calls,  *)
(* and the snapshot round trip GameMap.fromJSON(map.toJSON())              *)

InitSnapshot ==
  /\ tile = NewTile(Origin)
  /\ call = NoCall
  /\ threw = FALSE
  /\ \E width \in 0..MaxSnapshotWidth, height \in 0..MaxSnapshotHeight,
        name \in SnapshotNames :
       map = NewGameMap(width, height, name)
  /\ loaded = <<>>
  /\ edits = 0
  /\ found = NoLookup
  /\ snapshot = Null
  /\ args = Null
  /\ outcome = Null
  /\ InitHook

\* A mutator call on the i-th tile of the map, which is mutated in place.
MapTileCall(i, result) ==
  /\ edits < MaxEdits
  /\ map' = [map EXCEPT !.tiles[i].value = result.tile]
  /\ edits' = edits + 1
  /\ loaded' = <<>>
  /\ UNCHANGED <<tile, call, threw, found, snapshot, args, outcome, hook>>

MapSetTerrain ==
  \E i \in 1..Len(map.tiles) :
    MapTileCall(i, setTerrain(map.tiles[i].value, TUNDRA, HILLS))

MapSetFeature ==
  \E i \in 1..Len(map.tiles) :
    MapTileCall(i, setFeature(map.tiles[i].value, WOODS))

MapSetResource ==
  \E i \in 1..Len(map.tiles) :
    MapTileCall(i, setResource(map.tiles[i].value, IRON))

MapSetDistrict ==
  \E i \in 1..Len(map.tiles) :
    MapTileCall(i, setDistrict(map.tiles[i].value, CAMPUS))

MapSetWonder ==
  \E i \in 1..Len(map.tiles) :
    MapTileCall(i, setWonder(map.tiles[i].value, STONEHENGE))

MapSetNaturalWonder ==
  \E i \in 1..Len(map.tiles) :
    MapTileCall(i, setNaturalWonder(map.tiles[i].value, EVEREST))

MapSetImprovement ==
  \E i \in 1..Len(map.tiles) :
    MapTileCall(i, setImprovement(map.tiles[i].value, MINE))

MapAddRiverEdge ==
  \E i \in 1..Len(map.tiles), edge \in MapEdgeInputs :
    MapTileCall(i, addRiverEdge(map.tiles[i].value, edge))

MapSetOwner ==
  \E i \in 1..Len(map.tiles) :
    MapTileCall(i, setOwner(map.tiles[i].value, <<"city-1">>, TRUE))

RoundTrip ==
  /\ loaded' = <<GameMapFromJSON(GameMapToJSON(map))>>
  /\ UNCHANGED <<tile, call, threw, map, edits, found, snapshot, args, outcome, hook>>

NextSnapshot ==
  \/ MapSetTerrain
  \/ MapSetFeature
  \/ MapSetResource
  \/ MapSetDistrict
  \/ MapSetWonder
  \/ MapSetNaturalWonder
  \/ MapSetImprovement
  \/ MapAddRiverEdge
  \/ MapSetOwner
  \/ RoundTrip

SpecSnapshot == InitSnapshot /\ [][NextSnapshot]_vars

-----------------------------------------------------------------------------
(* Properties of the GameMap, checked under SpecMap and SpecSnapshot *)

\* The region of initializeEmptyMap, as the row and column ranges.
InRegion(width, height, coord) ==
  /\ 0 <= coord.r /\ coord.r < height
  /\ 0 - (coord.r \div 2) <= coord.q
  /\ coord.q < width - (coord.r \div 2)

IsDefaultTile(t, coord) ==
  /\ t.coord = coord
  /\ t.terrain = GRASS /\ t.modifier = FLAT
  /\ t.feature = NONE /\ t.resource = NONE /\ t.district = NONE
  /\ t.wonder = NONE /\ t.naturalWonder = NONE /\ t.improvement = NONE
  /\ t.riverEdges = <<>> /\ t.ownerCityId = Null /\ t.isCityCenter = FALSE

\* C9: right after new GameMap(width, height) a coordinate has a tile
\* exactly when 0 <= r < height and -floor(r/2) <= q < width - floor(r/2);
\* there is one tile per such coordinate, width * height in all, each
\* Grass/Flat with every other field at its none value, and getTile of any
\* other coordinate returns undefined.
C9_InitialRegion ==
  /\ \A coord \in Window :
       IF InRegion(map.width, map.height, coord)
       THEN /\ getTile(map, coord) # Undefined
            /\ IsDefaultTile(getTile(map, coord), coord)
       ELSE getTile(map, coord) = Undefined
  /\ Len(map.tiles) = map.width * map.height
  /\ \A i \in 1..Len(map.tiles) :
       /\ map.tiles[i].value.coord \in Window
       /\ \A j \in 1..Len(map.tiles) :
            map.tiles[j].value.coord = map.tiles[i].value.coord => j = i
  /\ found.done
       => (found.result = Undefined
             <=> ~InRegion(map.width, map.height, found.coord))

\* On a 2 x 3 map, getTile of (1, 2), inside the width x height rectangle,
\* has returned undefined, while (-1, 2) has a tile.
C9_Witness ==
  /\ map.width = 2 /\ map.height = 3
  /\ found.done /\ found.coord = [q |-> 1, r |-> 2]
  /\ found.result = Undefined
  /\ getTile(map, [q |-> 0 - 1, r |-> 2]) # Undefined

SameTile(a, b) ==
  /\ a.coord = b.coord
  /\ a.terrain = b.terrain /\ a.modifier = b.modifier
  /\ a.feature = b.feature /\ a.resource = b.resource
  /\ a.district = b.district /\ a.wonder = b.wonder
  /\ a.naturalWonder = b.naturalWonder /\ a.improvement = b.improvement
  /\ Elements(a.riverEdges) = Elements(b.riverEdges)
  /\ a.ownerCityId = b.ownerCityId /\ a.isCityCenter = b.isCityCenter

Coords(m) == {m.tiles[i].value.coord : i \in 1..Len(m.tiles)}

SameMap(a, b) ==
  /\ a.name = b.name /\ a.width = b.width /\ a.height = b.height
  /\ Len(a.tiles) = Len(b.tiles)
  /\ Coords(a) = Coords(b)
  /\ \A coord \in Coords(b) :
       /\ getTile(a, coord) # Undefined
       /\ SameTile(getTile(a, coord), getTile(b, coord))

\* C10: GameMap.fromJSON(g.toJSON()) has the name, width, height and tile
\* coordinates of g and, at each coordinate, the same value of every tile
\* field, the river edges compared as sets.
C10_SnapshotRoundTrip == loaded # <<>> => SameMap(loaded[1], map)

\* A reloaded map whose tile (-1, 2) holds two river edges, added in the
\* order 5, 0.
C10_Witness ==
  /\ loaded # <<>>
  /\ getTile(map, [q |-> 0 - 1, r |-> 2]) # Undefined
  /\ getTile(loaded[1], [q |-> 0 - 1, r |-> 2]).riverEdges = <<5, 0>>

-----------------------------------------------------------------------------
(* SpecLoad: a snapshot as toJSON writes it, damaged the ways a snapshot   *)
(* file can be, and handed to GameMap.fromJSON. A property that is absent  *)
(* from the parsed object reads as undefined, so the snapshot holds        *)
(* Undefined in its place.                                                 *)

\* GameMap.fromJSON ends in a TypeError when coordToKey reads q of the
\* coord of a tile that has none; nothing else in it or in Tile.fromJSON
\* throws.
GameMapFromJSONThrows(data) ==
  \E i \in 1..Len(data.tiles) : data.tiles[i].coord = Undefined

InitLoad ==
  /\ tile = NewTile(Origin)
  /\ call = NoCall
  /\ threw = FALSE
  /\ map = NewGameMap(0, 0, DefaultName)
  /\ loaded = <<>>
  /\ edits = 0
  /\ found = NoLookup
  /\ \E width \in 1..MaxSnapshotWidth, height \in 1..MaxSnapshotHeight,
        name \in SnapshotNames :
       snapshot = GameMapToJSON(NewGameMap(width, height, name))
  /\ args = Null
  /\ outcome = Null
  /\ InitHook

\* One change to the snapshot before it is loaded: another version, a tile
\* that lost its terrain or its coord, or a terrain or district value that
\* is in no enumeration.
DamageSnapshot ==
  /\ edits < MaxEdits
  /\ \E i \in 1..Len(snapshot.tiles) :
       \/ \E version \in {0, 2} :
            snapshot' = [snapshot EXCEPT !.version = version]
       \/ snapshot' = [snapshot EXCEPT !.tiles[i].terrain = Undefined]
       \/ snapshot' = [snapshot EXCEPT !.tiles[i].coord = Undefined]
       \/ snapshot' = [snapshot EXCEPT !.tiles[i].terrain = "lava"]
       \/ snapshot' = [snapshot EXCEPT !.tiles[i].district = "castle"]
  /\ edits' = edits + 1
  /\ call' = NoCall
  /\ threw' = FALSE
  /\ loaded' = <<>>
  /\ UNCHANGED <<tile, map, found, args, outcome, hook>>

FromJSON ==
  /\ call' = Call("fromJSON", "", "", 0, FALSE)
  /\ threw' = GameMapFromJSONThrows(snapshot)
  /\ loaded' = IF GameMapFromJSONThrows(snapshot)
               THEN <<>>
               ELSE <<GameMapFromJSON(snapshot)>>
  /\ UNCHANGED <<tile, map, edits, found, snapshot, args, outcome, hook>>

NextLoad ==
  \/ DamageSnapshot
  \/ FromJSON

SpecLoad == InitLoad /\ [][NextLoad]_vars

\* A snapshot of version 1 in which every tile has its coord and has
\* terrain, modifier, feature and district values of their enumerations.
ValidSnapshot(data) ==
  /\ data.version = 1
  /\ \A i \in 1..Len(data.tiles) :
       /\ data.tiles[i].coord # Undefined
       /\ data.tiles[i].terrain \in TerrainType
       /\ data.tiles[i].modifier \in TerrainModifier
       /\ data.tiles[i].feature \in FeatureType
       /\ data.tiles[i].district \in DistrictType

\* C11: GameMap.fromJSON of a snapshot that has a version other than 1, a
\* tile without a required field or an enum field outside its enumeration
\* throws and yields no GameMap.
C11_InvalidSnapshotFailsLoad ==
  (call.op = "fromJSON" /\ ~ValidSnapshot(snapshot))
    => (threw /\ loaded = <<>>)

-----------------------------------------------------------------------------
(* GameMap.ts: the hex geometry of HexUtils *)

axialToCube(coord) ==
  [q |-> coord.q, r |-> coord.r, s |-> (0 - coord.q) - coord.r]

\* The six neighbours in the order of the directions East, Southeast,
\* Southwest, West, Northwest, Northeast.
getNeighbors(coord) ==
  LET directions == << <<1, 0>>, <<0, 1>>, <<0 - 1, 1>>,
                       <<0 - 1, 0>>, <<0, 0 - 1>>, <<1, 0 - 1>> >>
  IN  [d \in 1..6 |-> [q |-> coord.q + directions[d][1],
                        r |-> coord.r + directions[d][2]]]

\* A faulty variant: the s axis of the cube is left out of the maximum.
distanceWithoutS(a, b) ==
  LET abs(x) == IF x < 0 THEN 0 - x ELSE x
      dq == abs(a.q - b.q)
      dr == abs(a.r - b.r)
  IN  IF dq >= dr THEN dq ELSE dr

distance(a, b) ==
  LET abs(x) == IF x < 0 THEN 0 - x ELSE x
      cubeA == axialToCube(a)
      cubeB == axialToCube(b)
      dq == abs(cubeA.q - cubeB.q)
      dr == abs(cubeA.r - cubeB.r)
      ds == abs(cubeA.s - cubeB.s)
  IN  CHOOSE m \in {dq, dr, ds} : m >= dq /\ m >= dr /\ m >= ds

\* The two loops, q outermost, as the offsets of the square of side
\* 2 * range + 1 in q-major order that the bounds of the inner loop keep.
\* A faulty variant: the inner loop runs over the whole square of offsets.
getHexesInRangeSquare(center, range) ==
  LET side == 2 * range + 1
      max(x, y) == IF x >= y THEN x ELSE y
      min(x, y) == IF x <= y THEN x ELSE y
      offsets == [k \in 1..(side * side) |->
                    [q |-> ((k - 1) \div side) - range,
                     r |-> ((k - 1) % side) - range]]
      inLoop(o) == (0 - range) <= o.r /\ o.r <= range
      kept == SelectSeq(offsets, inLoop)
  IN  [k \in 1..Len(kept) |-> [q |-> center.q + kept[k].q,
                                r |-> center.r + kept[k].r]]

\* A faulty variant: the hexes are pushed row by row, r in the outer loop.
getHexesInRangeByRow(center, range) ==
  LET side == 2 * range + 1
      max(x, y) == IF x >= y THEN x ELSE y
      min(x, y) == IF x <= y THEN x ELSE y
      offsets == [k \in 1..(side * side) |->
                    [q |-> ((k - 1) % side) - range,
                     r |-> ((k - 1) \div side) - range]]
      inLoop(o) == /\ max(0 - range, (0 - o.q) - range) <= o.r
                   /\ o.r <= min(range, (0 - o.q) + range)
      kept == SelectSeq(offsets, inLoop)
  IN  [k \in 1..Len(kept) |-> [q |-> center.q + kept[k].q,
                                r |-> center.r + kept[k].r]]

getHexesInRange(center, range) ==
  LET side == 2 * range + 1
      max(x, y) == IF x >= y THEN x ELSE y
      min(x, y) == IF x <= y THEN x ELSE y
      offsets == [k \in 1..(side * side) |->
                    [q |-> ((k - 1) \div side) - range,
                     r |-> ((k - 1) % side) - range]]
      inLoop(o) == /\ max(0 - range, (0 - o.q) - range) <= o.r
                   /\ o.r <= min(range, (0 - o.q) + range)
      kept == SelectSeq(offsets, inLoop)
  IN  [k \in 1..Len(kept) |-> [q |-> center.q + kept[k].q,
                                r |-> center.r + kept[k].r]]

-----------------------------------------------------------------------------
(* SpecDistance: HexUtils.distance applied to the pairs of three            *)
(* coordinates                                                              *)

MaxCoord == 2

Coordinates == {[q |-> q, r |-> r] : q \in (0 - MaxCoord)..MaxCoord,
                                     r \in (0 - MaxCoord)..MaxCoord}

InitDistance ==
  /\ tile = NewTile(Origin)
  /\ call = NoCall
  /\ threw = FALSE
  /\ map = NewGameMap(0, 0, DefaultName)
  /\ loaded = <<>>
  /\ edits = 0
  /\ found = NoLookup
  /\ snapshot = Null
  /\ \E a \in Coordinates, b \in Coordinates, c \in Coordinates :
       args = [a |-> a, b |-> b, c |-> c]
  /\ outcome = Null
  /\ InitHook

Distance ==
  /\ outcome = Null
  /\ outcome' = [aa |-> distance(args.a, args.a),
                 ab |-> distance(args.a, args.b),
                 ba |-> distance(args.b, args.a),
                 bc |-> distance(args.b, args.c),
                 ac |-> distance(args.a, args.c)]
  /\ UNCHANGED <<tile, call, threw, map, loaded, edits, found, snapshot, args, hook>>

NextDistance == Distance

SpecDistance == InitDistance /\ [][NextDistance]_vars

\* C20: distance(a, b) is the largest of |dq|, |dr| and |ds|, where ds is
\* minus dq minus dr, and it is a metric: distance(a, a) = 0,
\* distance(a, b) = distance(b, a), and
\* distance(a, c) <= distance(a, b) + distance(b, c).
C20_DistanceIsMetric ==
  outcome # Null
    => LET abs(x) == IF x < 0 THEN 0 - x ELSE x
           dq == args.a.q - args.b.q
           dr == args.a.r - args.b.r
           sides == {abs(dq), abs(dr), abs(dq + dr)}
       IN  /\ outcome.ab \in sides
           /\ \A side \in sides : side <= outcome.ab
           /\ outcome.aa = 0
           /\ outcome.ab = outcome.ba
           /\ outcome.ac <= outcome.ab + outcome.bc

\* Three coordinates in a line, where the triangle inequality is an
\* equality, and the s axis alone gives the distances.
C20_Witness ==
  /\ outcome # Null
  /\ args.a = [q |-> 0 - 1, r |-> 0 - 1]
  /\ args.b = Origin
  /\ args.c = [q |-> 1, r |-> 1]
  /\ outcome.ab = 2 /\ outcome.bc = 2 /\ outcome.ac = 4

-----------------------------------------------------------------------------
(* gameData.ts: the district rule table. A primaryYieldType is null or a  *)
(* yield name, held like every nullable string as Null or <<name>>.        *)

DISTRICT_DATA(district) ==
  LET info(primaryYieldType, requiresCoast, requiresLand, canBuildOnHills,
           isSpecialty) ==
        [primaryYieldType |-> primaryYieldType,
         requiresCoast |-> requiresCoast,
         requiresLand |-> requiresLand,
         canBuildOnHills |-> canBuildOnHills,
         isSpecialty |-> isSpecialty]
  IN  CASE district = NONE -> info(Null, FALSE, FALSE, TRUE, FALSE)
        [] district = CITY_CENTER -> info(Null, FALSE, TRUE, TRUE, FALSE)
        [] district = HOLY_SITE -> info(<<"faith">>, FALSE, TRUE, TRUE, TRUE)
        [] district = CAMPUS -> info(<<"science">>, FALSE, TRUE, TRUE, TRUE)
        [] district = THEATER_SQUARE -> info(<<"culture">>, FALSE, TRUE, TRUE, TRUE)
        [] district = COMMERCIAL_HUB -> info(<<"gold">>, FALSE, TRUE, TRUE, TRUE)
        [] district = HARBOR -> info(<<"gold">>, TRUE, FALSE, FALSE, TRUE)
        [] district = INDUSTRIAL_ZONE
             -> info(<<"production">>, FALSE, TRUE, TRUE, TRUE)
        [] district = "entertainment_complex"
             -> info(Null, FALSE, TRUE, TRUE, TRUE)
        [] district = WATER_PARK -> info(Null, TRUE, FALSE, FALSE, TRUE)
        [] district = "aqueduct" -> info(Null, FALSE, TRUE, FALSE, FALSE)
        [] district = "neighborhood" -> info(Null, FALSE, TRUE, TRUE, FALSE)
        [] district = "spaceport" -> info(Null, FALSE, TRUE, FALSE, TRUE)
        [] district = "aerodrome" -> info(Null, FALSE, TRUE, FALSE, TRUE)
        [] district = "encampment" -> info(Null, FALSE, TRUE, TRUE, TRUE)
        [] district = GOVERNMENT_PLAZA -> info(Null, FALSE, TRUE, TRUE, TRUE)
        [] district = "diplomatic_quarter"
             -> info(Null, FALSE, TRUE, TRUE, TRUE)
        [] district = "preserve" -> info(Null, FALSE, TRUE, TRUE, TRUE)
        [] district = "dam" -> info(Null, FALSE, TRUE, FALSE, FALSE)
        [] district = "canal" -> info(<<"gold">>, FALSE, TRUE, FALSE, FALSE)
        [] OTHER -> Undefined

-----------------------------------------------------------------------------
(* GameMap.ts: the tiles around a coordinate *)

\* The tiles of the neighbours that exist on the map, in direction order.
getNeighborTiles(m, coord) ==
  LET neighbors == getNeighbors(coord)
      exists(t) == t # Undefined
  IN  SelectSeq([d \in 1..Len(neighbors) |-> getTile(m, neighbors[d])],
                exists)

getTilesInRange(m, coord, range) ==
  LET hexes == getHexesInRange(coord, range)
      exists(t) == t # Undefined
  IN  SelectSeq([k \in 1..Len(hexes) |-> getTile(m, hexes[k])], exists)

-----------------------------------------------------------------------------
(* AdjacencyEngine: the per-district rules. Each takes the line items      *)
(* pushed so far and returns them with its own appended.                   *)

\* One AdjacencyBonus line item, or none when the amount is not positive.
\* A faulty variant: a rule that evaluates to zero still emits its item.
BonusIfOrZero(districtType, yieldType, amount, source) ==
  <<[districtType |-> districtType, yieldType |-> yieldType,
     amount |-> amount, source |-> source]>>

BonusIf(districtType, yieldType, amount, source) ==
  IF amount > 0
  THEN <<[districtType |-> districtType, yieldType |-> yieldType,
          amount |-> amount, source |-> source]>>
  ELSE <<>>

\* A faulty variant: Rainforests and districts are halved apart, not pooled.
calculateCampusAdjacencyHalvesApart(t, neighbors, bonuses) ==
  LET count(test(_)) ==
        Cardinality({i \in 1..Len(neighbors) : test(neighbors[i])})
      isJungle(n) == n.feature = RAINFOREST
      isReef(n) == n.feature = REEF
      isGeothermal(n) == n.feature = GEOTHERMAL_FISSURE
      mountainCount == count(isMountain)
      jungleCount == count(isJungle)
      districtCount == count(hasDistrict)
      reefCount == count(isReef)
      geothermalCount == count(isGeothermal)
      halfBonusCount == jungleCount \div 2 + districtCount \div 2
  IN  bonuses
      \o BonusIf(CAMPUS, "science", mountainCount,
                 ToString(mountainCount) \o " Mountain(s)")
      \o BonusIf(CAMPUS, "science", halfBonusCount,
                 ToString(jungleCount) \o " Rainforest(s), "
                 \o ToString(districtCount) \o " District(s)")
      \o BonusIf(CAMPUS, "science", geothermalCount * 2,
                 ToString(geothermalCount) \o " Geothermal Fissure(s)")
      \o BonusIf(CAMPUS, "science", reefCount * 2,
                 ToString(reefCount) \o " Reef(s)")

calculateCampusAdjacency(t, neighbors, bonuses) ==
  LET count(test(_)) ==
        Cardinality({i \in 1..Len(neighbors) : test(neighbors[i])})
      isJungle(n) == n.feature = RAINFOREST
      isReef(n) == n.feature = REEF
      isGeothermal(n) == n.feature = GEOTHERMAL_FISSURE
      mountainCount == count(isMountain)
      jungleCount == count(isJungle)
      districtCount == count(hasDistrict)
      reefCount == count(isReef)
      geothermalCount == count(isGeothermal)
      halfBonusCount == (jungleCount + districtCount) \div 2
  IN  bonuses
      \o BonusIf(CAMPUS, "science", mountainCount,
                 ToString(mountainCount) \o " Mountain(s)")
      \o BonusIf(CAMPUS, "science", halfBonusCount,
                 ToString(jungleCount) \o " Rainforest(s), "
                 \o ToString(districtCount) \o " District(s)")
      \o BonusIf(CAMPUS, "science", geothermalCount * 2,
                 ToString(geothermalCount) \o " Geothermal Fissure(s)")
      \o BonusIf(CAMPUS, "science", reefCount * 2,
                 ToString(reefCount) \o " Reef(s)")

calculateHolySiteAdjacency(t, neighbors, bonuses) ==
  LET count(test(_)) ==
        Cardinality({i \in 1..Len(neighbors) : test(neighbors[i])})
      isForest(n) == n.feature = WOODS
      mountainCount == count(isMountain)
      forestCount == count(isForest)
      districtCount == count(hasDistrict)
      naturalWonderCount == count(hasNaturalWonder)
      halfBonusCount == (forestCount + districtCount) \div 2
  IN  bonuses
      \o BonusIf(HOLY_SITE, "faith", mountainCount,
                 ToString(mountainCount) \o " Mountain(s)")
      \o BonusIf(HOLY_SITE, "faith", halfBonusCount,
                 ToString(forestCount) \o " Woods, "
                 \o ToString(districtCount) \o " District(s)")
      \o BonusIf(HOLY_SITE, "faith", naturalWonderCount * 2,
                 ToString(naturalWonderCount) \o " Natural Wonder(s)")

calculateTheaterSquareAdjacency(t, neighbors, bonuses) ==
  LET count(test(_)) ==
        Cardinality({i \in 1..Len(neighbors) : test(neighbors[i])})
      wonderCount == count(hasWonder)
      districtCount == count(hasDistrict)
      halfBonusCount == districtCount \div 2
  IN  bonuses
      \o BonusIf(THEATER_SQUARE, "culture", wonderCount * 2,
                 ToString(wonderCount) \o " Wonder(s)")
      \o BonusIf(THEATER_SQUARE, "culture", halfBonusCount,
                 ToString(districtCount) \o " District(s)")

\* A faulty variant: the river bonus is paid for every river edge.
calculateCommercialHubAdjacencyPerEdge(t, neighbors, bonuses) ==
  LET count(test(_)) ==
        Cardinality({i \in 1..Len(neighbors) : test(neighbors[i])})
      isHarbor(n) == n.district = HARBOR
      harborCount == count(isHarbor)
      districtCount == count(hasDistrict)
      halfBonusCount == districtCount \div 2
  IN  bonuses
      \o (IF hasRiver(t)
          THEN BonusIf(COMMERCIAL_HUB, "gold", 2 * Len(t.riverEdges), "River")
          ELSE <<>>)
      \o BonusIf(COMMERCIAL_HUB, "gold", harborCount * 2,
                 ToString(harborCount) \o " Harbor(s)")
      \o BonusIf(COMMERCIAL_HUB, "gold", halfBonusCount,
                 ToString(districtCount) \o " District(s)")

calculateCommercialHubAdjacency(t, neighbors, bonuses) ==
  LET count(test(_)) ==
        Cardinality({i \in 1..Len(neighbors) : test(neighbors[i])})
      isHarbor(n) == n.district = HARBOR
      harborCount == count(isHarbor)
      districtCount == count(hasDistrict)
      halfBonusCount == districtCount \div 2
  IN  bonuses
      \o (IF hasRiver(t)
          THEN BonusIf(COMMERCIAL_HUB, "gold", 2, "River")
          ELSE <<>>)
      \o BonusIf(COMMERCIAL_HUB, "gold", harborCount * 2,
                 ToString(harborCount) \o " Harbor(s)")
      \o BonusIf(COMMERCIAL_HUB, "gold", halfBonusCount,
                 ToString(districtCount) \o " District(s)")

calculateHarborAdjacency(t, neighbors, bonuses) ==
  LET count(test(_)) ==
        Cardinality({i \in 1..Len(neighbors) : test(neighbors[i])})
      isCoastalResource(n) == isWater(n) /\ n.resource # NONE
      isCityCenter(n) == n.district = CITY_CENTER
      coastalResourceCount == count(isCoastalResource)
      cityCenterCount == count(isCityCenter)
      districtCount == count(hasDistrict)
      halfBonusCount == districtCount \div 2
  IN  bonuses
      \o BonusIf(HARBOR, "gold", coastalResourceCount,
                 ToString(coastalResourceCount) \o " Coastal Resource(s)")
      \o BonusIf(HARBOR, "gold", cityCenterCount * 2,
                 ToString(cityCenterCount) \o " City Center(s)")
      \o BonusIf(HARBOR, "gold", halfBonusCount,
                 ToString(districtCount) \o " District(s)")

\* A faulty variant: Aqueducts, Dams and Canals do not count as districts.
calculateIndustrialZoneAdjacencyOtherDistricts(t, neighbors, bonuses) ==
  LET count(test(_)) ==
        Cardinality({i \in 1..Len(neighbors) : test(neighbors[i])})
      isMine(n) == n.improvement = MINE
      isQuarry(n) == n.improvement = QUARRY
      isAqueduct(n) == n.district = "aqueduct"
      isDam(n) == n.district = "dam"
      isCanal(n) == n.district = "canal"
      isStrategic(n) == RESOURCE_DATA(n.resource).category = "strategic"
      mineCount == count(isMine)
      quarryCount == count(isQuarry)
      aqueductCount == count(isAqueduct)
      damCount == count(isDam)
      canalCount == count(isCanal)
      districtCount == count(hasDistrict)
      strategicResourceCount == count(isStrategic)
      waterInfraBonus == (aqueductCount + damCount + canalCount) * 2
      halfBonusCount ==
        (districtCount - (aqueductCount + damCount + canalCount)) \div 2
  IN  bonuses
      \o BonusIf(INDUSTRIAL_ZONE, "production", mineCount,
                 ToString(mineCount) \o " Mine(s)")
      \o BonusIf(INDUSTRIAL_ZONE, "production", quarryCount,
                 ToString(quarryCount) \o " Quarry(ies)")
      \o BonusIf(INDUSTRIAL_ZONE, "production", waterInfraBonus,
                 ToString(aqueductCount) \o " Aqueduct(s), "
                 \o ToString(damCount) \o " Dam(s), "
                 \o ToString(canalCount) \o " Canal(s)")
      \o BonusIf(INDUSTRIAL_ZONE, "production", halfBonusCount,
                 ToString(districtCount) \o " District(s)")
      \o BonusIf(INDUSTRIAL_ZONE, "production", strategicResourceCount,
                 ToString(strategicResourceCount)
                 \o " Strategic Resource(s)")

calculateIndustrialZoneAdjacency(t, neighbors, bonuses) ==
  LET count(test(_)) ==
        Cardinality({i \in 1..Len(neighbors) : test(neighbors[i])})
      isMine(n) == n.improvement = MINE
      isQuarry(n) == n.improvement = QUARRY
      isAqueduct(n) == n.district = "aqueduct"
      isDam(n) == n.district = "dam"
      isCanal(n) == n.district = "canal"
      isStrategic(n) == RESOURCE_DATA(n.resource).category = "strategic"
      mineCount == count(isMine)
      quarryCount == count(isQuarry)
      aqueductCount == count(isAqueduct)
      damCount == count(isDam)
      canalCount == count(isCanal)
      districtCount == count(hasDistrict)
      strategicResourceCount == count(isStrategic)
      waterInfraBonus == (aqueductCount + damCount + canalCount) * 2
      halfBonusCount == districtCount \div 2
  IN  bonuses
      \o BonusIf(INDUSTRIAL_ZONE, "production", mineCount,
                 ToString(mineCount) \o " Mine(s)")
      \o BonusIf(INDUSTRIAL_ZONE, "production", quarryCount,
                 ToString(quarryCount) \o " Quarry(ies)")
      \o BonusIf(INDUSTRIAL_ZONE, "production", waterInfraBonus,
                 ToString(aqueductCount) \o " Aqueduct(s), "
                 \o ToString(damCount) \o " Dam(s), "
                 \o ToString(canalCount) \o " Canal(s)")
      \o BonusIf(INDUSTRIAL_ZONE, "production", halfBonusCount,
                 ToString(districtCount) \o " District(s)")
      \o BonusIf(INDUSTRIAL_ZONE, "production", strategicResourceCount,
                 ToString(strategicResourceCount)
                 \o " Strategic Resource(s)")

-----------------------------------------------------------------------------
(* AdjacencyEngine: the public operations. The engine holds the map it     *)
(* was constructed with; calculatePotentialAdjacency and                   *)
(* findBestDistrictPlacement, which work on a hypothetical placement,      *)
(* return the map as the call leaves it next to the value they return.     *)

\* The loop that adds the first n line items to totalBonus.
RECURSIVE AddBonuses(_, _, _)
AddBonuses(totalBonus, bonuses, n) ==
  IF n = 0
  THEN totalBonus
  ELSE [AddBonuses(totalBonus, bonuses, n - 1) EXCEPT
          ![bonuses[n].yieldType] = @ + bonuses[n].amount]

\* A faulty variant: one Government Plaza item for each adjacent plaza.
calculateDistrictAdjacencyPerPlaza(m, t) ==
  LET neighbors == getNeighborTiles(m, t.coord)
      ruleBonuses ==
        CASE t.district = CAMPUS
               -> calculateCampusAdjacency(t, neighbors, <<>>)
          [] t.district = HOLY_SITE
               -> calculateHolySiteAdjacency(t, neighbors, <<>>)
          [] t.district = THEATER_SQUARE
               -> calculateTheaterSquareAdjacency(t, neighbors, <<>>)
          [] t.district = COMMERCIAL_HUB
               -> calculateCommercialHubAdjacency(t, neighbors, <<>>)
          [] t.district = HARBOR
               -> calculateHarborAdjacency(t, neighbors, <<>>)
          [] t.district = INDUSTRIAL_ZONE
               -> calculateIndustrialZoneAdjacency(t, neighbors, <<>>)
          [] OTHER -> <<>>
      govPlazaAdjacent ==
        \E i \in 1..Len(neighbors) : neighbors[i].district = GOVERNMENT_PLAZA
      districtInfo == DISTRICT_DATA(t.district)
      bonuses ==
        IF /\ govPlazaAdjacent
           /\ districtInfo # Undefined
           /\ districtInfo.isSpecialty
           /\ districtInfo.primaryYieldType # Null
        THEN ruleBonuses
             \o [i \in 1..Len(SelectSeq(neighbors,
                                         LAMBDA n :
                                           n.district = GOVERNMENT_PLAZA)) |->
                   [districtType |-> t.district,
                    yieldType |-> districtInfo.primaryYieldType[1],
                    amount |-> 1,
                    source |-> "Government Plaza"]]
        ELSE ruleBonuses
  IN  [tile |-> t,
       districtType |-> t.district,
       totalBonus |-> AddBonuses(EMPTY_YIELDS, bonuses, Len(bonuses)),
       bonusBreakdown |-> bonuses]

calculateDistrictAdjacency(m, t) ==
  LET neighbors == getNeighborTiles(m, t.coord)
      ruleBonuses ==
        CASE t.district = CAMPUS
               -> calculateCampusAdjacency(t, neighbors, <<>>)
          [] t.district = HOLY_SITE
               -> calculateHolySiteAdjacency(t, neighbors, <<>>)
          [] t.district = THEATER_SQUARE
               -> calculateTheaterSquareAdjacency(t, neighbors, <<>>)
          [] t.district = COMMERCIAL_HUB
               -> calculateCommercialHubAdjacency(t, neighbors, <<>>)
          [] t.district = HARBOR
               -> calculateHarborAdjacency(t, neighbors, <<>>)
          [] t.district = INDUSTRIAL_ZONE
               -> calculateIndustrialZoneAdjacency(t, neighbors, <<>>)
          [] OTHER -> <<>>
      govPlazaAdjacent ==
        \E i \in 1..Len(neighbors) : neighbors[i].district = GOVERNMENT_PLAZA
      districtInfo == DISTRICT_DATA(t.district)
      bonuses ==
        IF /\ govPlazaAdjacent
           /\ districtInfo # Undefined
           /\ districtInfo.isSpecialty
           /\ districtInfo.primaryYieldType # Null
        THEN Append(ruleBonuses,
                    [districtType |-> t.district,
                     yieldType |-> districtInfo.primaryYieldType[1],
                     amount |-> 1,
                     source |-> "Government Plaza"])
        ELSE ruleBonuses
  IN  [tile |-> t,
       districtType |-> t.district,
       totalBonus |-> AddBonuses(EMPTY_YIELDS, bonuses, Len(bonuses)),
       bonusBreakdown |-> bonuses]

\* The loop that adds the totalBonus of the first n districts to totalYields.
RECURSIVE AddTotals(_, _, _)
AddTotals(totalYields, districts, n) ==
  IF n = 0
  THEN totalYields
  ELSE LET sum == AddTotals(totalYields, districts, n - 1)
       IN  [key \in YieldFields |-> sum[key] + districts[n].totalBonus[key]]

\* A faulty variant: a City Center in range is listed like any district.
calculateCityAdjacencyWithCenter(m, cityCenter) ==
  LET workableTiles == getTilesInRange(m, cityCenter, 3)
      districtTiles == SelectSeq(workableTiles, hasDistrict)
      districts == [i \in 1..Len(districtTiles) |->
                      calculateDistrictAdjacency(m, districtTiles[i])]
  IN  [cityCenter |-> cityCenter,
       districts |-> districts,
       totalYields |-> AddTotals(EMPTY_YIELDS, districts, Len(districts))]

calculateCityAdjacency(m, cityCenter) ==
  LET workableTiles == getTilesInRange(m, cityCenter, 3)
      isOtherDistrict(t) == hasDistrict(t) /\ t.district # CITY_CENTER
      districtTiles == SelectSeq(workableTiles, isOtherDistrict)
      districts == [i \in 1..Len(districtTiles) |->
                      calculateDistrictAdjacency(m, districtTiles[i])]
  IN  [cityCenter |-> cityCenter,
       districts |-> districts,
       totalYields |-> AddTotals(EMPTY_YIELDS, districts, Len(districts))]

\* A faulty variant: the district is placed on the tile of the map itself.
calculatePotentialAdjacencyInPlace(m, coord, districtType) ==
  LET t == getTile(m, coord)
      placed == [t EXCEPT !.district = districtType]
      changed == [m EXCEPT !.tiles = MapSet(m.tiles, coordToKey(coord), placed)]
  IN  IF t = Undefined
      THEN [map |-> m, value |-> Null]
      ELSE [map |-> changed,
            value |-> calculateDistrictAdjacency(changed, placed)]

\* A faulty variant: the temporary tile keeps the district of the tile.
calculatePotentialAdjacencyKeepsDistrict(m, coord, districtType) ==
  LET t == getTile(m, coord)
      tempTile == TileFromJSON(TileToJSON(t))
  IN  IF t = Undefined
      THEN [map |-> m, value |-> Null]
      ELSE [map |-> m, value |-> calculateDistrictAdjacency(m, tempTile)]

calculatePotentialAdjacency(m, coord, districtType) ==
  LET t == getTile(m, coord)
      tempTile == TileFromJSON([TileToJSON(t) EXCEPT !.district = districtType])
  IN  IF t = Undefined
      THEN [map |-> m, value |-> Null]
      ELSE [map |-> m, value |-> calculateDistrictAdjacency(m, tempTile)]

\* A faulty variant: Hills are open to every district.
canPlaceDistrictOnHills(t, districtType) ==
  LET districtInfo == DISTRICT_DATA(districtType)
  IN  /\ districtInfo # Undefined
      /\ ~(districtInfo.requiresCoast /\ ~isWater(t))
      /\ ~(districtInfo.requiresLand /\ isWater(t))

\* A faulty variant: requiresLand is not looked at.
canPlaceDistrictOnWater(t, districtType) ==
  LET districtInfo == DISTRICT_DATA(districtType)
  IN  /\ districtInfo # Undefined
      /\ ~(districtInfo.requiresCoast /\ ~isWater(t))
      /\ ~(~districtInfo.canBuildOnHills /\ isHill(t))

canPlaceDistrict(t, districtType) ==
  LET districtInfo == DISTRICT_DATA(districtType)
  IN  /\ districtInfo # Undefined
      /\ ~(districtInfo.requiresCoast /\ ~isWater(t))
      /\ ~(districtInfo.requiresLand /\ isWater(t))
      /\ ~(~districtInfo.canBuildOnHills /\ isHill(t))

\* A faulty variant: a candidate that equals the running best replaces it.
RECURSIVE BestPlacementLoopLastWins(_, _, _, _, _)
BestPlacementLoopLastWins(m, validTiles, i, districtType, best) ==
  IF i > Len(validTiles)
  THEN [map |-> m, value |-> best.bestResult]
  ELSE LET potential ==
             calculatePotentialAdjacency(m, validTiles[i].coord, districtType)
           primary == DISTRICT_DATA(districtType).primaryYieldType
           total == IF primary # Null
                    THEN potential.value.totalBonus[primary[1]]
                    ELSE 0
           next ==
             IF /\ potential.value # Null
                /\ (best.bestTotal = <<>> \/ total >= best.bestTotal[1])
             THEN [bestResult |-> [coord |-> validTiles[i].coord,
                                   bonus |-> potential.value],
                   bestTotal |-> <<total>>]
             ELSE best
       IN  BestPlacementLoopLastWins(potential.map, validTiles, i + 1,
                                     districtType, next)

\* The loop over validTiles from the i-th on. best is the running
\* bestResult and bestTotal, the latter <<>> for -Infinity and <<n>> for n.
RECURSIVE BestPlacementLoop(_, _, _, _, _)
BestPlacementLoop(m, validTiles, i, districtType, best) ==
  IF i > Len(validTiles)
  THEN [map |-> m, value |-> best.bestResult]
  ELSE LET potential ==
             calculatePotentialAdjacency(m, validTiles[i].coord, districtType)
           primary == DISTRICT_DATA(districtType).primaryYieldType
           total == IF primary # Null
                    THEN potential.value.totalBonus[primary[1]]
                    ELSE 0
           next ==
             IF /\ potential.value # Null
                /\ (best.bestTotal = <<>> \/ total > best.bestTotal[1])
             THEN [bestResult |-> [coord |-> validTiles[i].coord,
                                   bonus |-> potential.value],
                   bestTotal |-> <<total>>]
             ELSE best
       IN  BestPlacementLoop(potential.map, validTiles, i + 1, districtType,
                             next)

\* A faulty variant: the running bestTotal starts at 0.
findBestDistrictPlacementAboveZero(m, cityCenter, districtType) ==
  LET workableTiles == getTilesInRange(m, cityCenter, 3)
      valid(t) == /\ ~hasDistrict(t)
                  /\ ~isMountain(t)
                  /\ canPlaceDistrict(t, districtType)
      validTiles == SelectSeq(workableTiles, valid)
  IN  BestPlacementLoop(m, validTiles, 1, districtType,
                        [bestResult |-> Null, bestTotal |-> <<0>>])

\* The tiles that findBestDistrictPlacement keeps of the workable tiles, in
\* their order: the ones it evaluates a hypothetical placement for.
validPlacementTiles(m, cityCenter, districtType) ==
  LET workableTiles == getTilesInRange(m, cityCenter, 3)
      valid(t) == /\ ~hasDistrict(t)
                  /\ ~isMountain(t)
                  /\ canPlaceDistrict(t, districtType)
  IN  SelectSeq(workableTiles, valid)

findBestDistrictPlacement(m, cityCenter, districtType) ==
  LET validTiles == validPlacementTiles(m, cityCenter, districtType)
  IN  BestPlacementLoop(m, validTiles, 1, districtType,
                        [bestResult |-> Null, bestTotal |-> <<>>])

-----------------------------------------------------------------------------
(* SpecEngine: a map as constructed, a few mutator calls on its tiles, and *)
(* the public operations of an AdjacencyEngine constructed with it         *)

MaxEngineEdits == 2

\* The size of the map: from one end of it the other end is out of the
\* range of 3.
EngineMapSize == [width |-> 4, height |-> 2]

\* The city centers asked about: two opposite corners of the map.
EngineCenters == {Origin, [q |-> 3, r |-> 1]}

InitEngine ==
  /\ tile = NewTile(Origin)
  /\ call = NoCall
  /\ threw = FALSE
  /\ map = NewGameMap(EngineMapSize.width, EngineMapSize.height, DefaultName)
  /\ loaded = <<>>
  /\ edits = 0
  /\ found = NoLookup
  /\ snapshot = Null
  /\ args = Null
  /\ outcome = Null
  /\ InitHook

\* One mutator call on a tile of the map.
EditTile ==
  /\ edits < MaxEngineEdits
  /\ \E i \in 1..Len(map.tiles) :
       LET t == map.tiles[i].value
       IN  \E edited \in {setTerrain(t, GRASS, MOUNTAIN),
                          setTerrain(t, GRASS, HILLS),
                          setTerrain(t, COAST, FLAT),
                          setDistrict(t, CAMPUS)} :
             map' = [map EXCEPT !.tiles[i].value = edited.tile]
  /\ edits' = edits + 1
  /\ args' = Null
  /\ outcome' = Null
  /\ UNCHANGED <<tile, call, threw, loaded, found, snapshot, hook>>

\* A call of the engine on the map as the last mutator call left it: its
\* name and arguments, the value it returned and the map as it left it.
EngineCall(op, coord, districtType, returned, mapAfter) ==
  /\ args = Null
  /\ args' = [op |-> op, coord |-> coord, districtType |-> districtType]
  /\ outcome' = returned
  /\ map' = mapAfter
  /\ UNCHANGED <<tile, call, threw, loaded, edits, found, snapshot, hook>>

CalculateDistrictAdjacency ==
  \E i \in 1..Len(map.tiles) :
    LET t == map.tiles[i].value
    IN  /\ hasDistrict(t)
        /\ EngineCall("calculateDistrictAdjacency", t.coord, t.district,
                      calculateDistrictAdjacency(map, t), map)

CalculateCityAdjacency ==
  \E cityCenter \in EngineCenters :
    EngineCall("calculateCityAdjacency", cityCenter, NONE,
               calculateCityAdjacency(map, cityCenter), map)

CalculatePotentialAdjacency ==
  \E coord \in {[q |-> 2, r |-> 1], [q |-> 4, r |-> 0]},
     districtType \in {CAMPUS} :
    LET potential == calculatePotentialAdjacency(map, coord, districtType)
    IN  EngineCall("calculatePotentialAdjacency", coord, districtType,
                   potential.value, potential.map)

FindBestDistrictPlacement ==
  \E search \in {<<Origin, CAMPUS>>, <<Origin, HARBOR>>,
                  <<Origin, "aqueduct">>, <<[q |-> 3, r |-> 1], CAMPUS>>} :
    LET best == findBestDistrictPlacement(map, search[1], search[2])
    IN  EngineCall("findBestDistrictPlacement", search[1], search[2],
                   best.value, best.map)

NextEngine ==
  \/ EditTile
  \/ CalculateDistrictAdjacency
  \/ CalculateCityAdjacency
  \/ CalculatePotentialAdjacency
  \/ FindBestDistrictPlacement

SpecEngine == InitEngine /\ [][NextEngine]_vars

-----------------------------------------------------------------------------
(* SpecCity: the same map with districts of several kinds placed on it,    *)
(* and calculateCityAdjacency                                              *)

\* One mutator call on a tile of the map: a Mountain, a specialty district,
\* a district that is not a specialty one, or the founding of a city.
EditCityTile ==
  /\ edits < MaxEngineEdits
  /\ \E i \in 1..Len(map.tiles) :
       LET t == map.tiles[i].value
       IN  \E edited \in {setTerrain(t, GRASS, MOUNTAIN),
                          setDistrict(t, CAMPUS),
                          setDistrict(t, "aqueduct"),
                          setOwner(t, <<"city-1">>, TRUE)} :
             map' = [map EXCEPT !.tiles[i].value = edited.tile]
  /\ edits' = edits + 1
  /\ args' = Null
  /\ outcome' = Null
  /\ UNCHANGED <<tile, call, threw, loaded, found, snapshot, hook>>

NextCity ==
  \/ EditCityTile
  \/ CalculateCityAdjacency

SpecCity == InitEngine /\ [][NextCity]_vars

\* C12: a call of calculatePotentialAdjacency, findBestDistrictPlacement,
\* calculateDistrictAdjacency or calculateCityAdjacency leaves the snapshot
\* (toJSON) of the map as it was before the call, the tile of the
\* hypothetical placement included.
C12_EngineLeavesMapAlone ==
  [][args' # Null => GameMapToJSON(map') = GameMapToJSON(map)]_vars

\* calculatePotentialAdjacency of a Campus on the tile (2, 1), next to a
\* Mountain, has returned a science total of 1, and the tile has no
\* district.
C12_Witness ==
  /\ args # Null
  /\ args.op = "calculatePotentialAdjacency"
  /\ args.coord = [q |-> 2, r |-> 1]
  /\ outcome.totalBonus.science = 1
  /\ outcome.tile.district = CAMPUS
  /\ getTile(map, args.coord).district = NONE

\* C13: a coordinate returned by findBestDistrictPlacement has a tile in
\* the map, is within distance 3 of the city center, and its tile has no
\* district, is not a Mountain, is water if the district requires coast,
\* is land if it requires land, and is not Hills if the district cannot be
\* built on hills.
C13_BestPlacementIsEligible ==
  (args # Null /\ args.op = "findBestDistrictPlacement" /\ outcome # Null)
    => LET t == getTile(map, outcome.coord)
           districtInfo == DISTRICT_DATA(args.districtType)
       IN  /\ t # Undefined
           /\ distance(args.coord, outcome.coord) <= 3
           /\ t.district = NONE
           /\ t.modifier # MOUNTAIN
           /\ districtInfo.requiresCoast => t.terrain \in {COAST, OCEAN}
           /\ districtInfo.requiresLand => t.terrain \notin {COAST, OCEAN}
           /\ ~districtInfo.canBuildOnHills => t.modifier # HILLS

\* The search for an Aqueduct around (0, 0) has passed over the Hills at
\* (0, 0) and the Mountain at (0, 1) and returned (1, 0).
C13_Witness ==
  /\ args # Null
  /\ args.op = "findBestDistrictPlacement"
  /\ args.coord = Origin
  /\ args.districtType = "aqueduct"
  /\ getTile(map, Origin).modifier = HILLS
  /\ getTile(map, [q |-> 0, r |-> 1]).modifier = MOUNTAIN
  /\ outcome # Null
  /\ outcome.coord = [q |-> 1, r |-> 0]

\* The tiles findBestDistrictPlacement may choose from, by the rule table:
\* no district, not a Mountain, and of the terrain the district asks for.
Eligible(t, districtType) ==
  LET districtInfo == DISTRICT_DATA(districtType)
  IN  /\ t.district = NONE
      /\ t.modifier # MOUNTAIN
      /\ districtInfo.requiresCoast => t.terrain \in {COAST, OCEAN}
      /\ districtInfo.requiresLand => t.terrain \notin {COAST, OCEAN}
      /\ ~districtInfo.canBuildOnHills => t.modifier # HILLS

\* The coordinates of the map within distance 3 of cityCenter whose tiles
\* are eligible.
Candidates(m, cityCenter, districtType) ==
  {coord \in Coords(m) :
     /\ distance(cityCenter, coord) <= 3
     /\ Eligible(getTile(m, coord), districtType)}

\* The total of the district's primary yield that a placement at coord
\* would have, 0 for a district without a primary yield.
PotentialTotal(m, coord, districtType) ==
  LET primary == DISTRICT_DATA(districtType).primaryYieldType
      potential == calculatePotentialAdjacency(m, coord, districtType)
  IN  IF primary = Null THEN 0 ELSE potential.value.totalBonus[primary[1]]

\* The order in which the tiles in range are enumerated: q ascending, and r
\* ascending within one q.
EnumeratedBefore(c, d) == c.q < d.q \/ (c.q = d.q /\ c.r < d.r)

\* C14: findBestDistrictPlacement returns an eligible candidate whose
\* potential primary-yield total is the largest of all eligible candidates,
\* with that candidate's potential result, and of the candidates with the
\* largest total it returns the one enumerated first.
C14_BestPlacementIsFirstMaximum ==
  (args # Null /\ args.op = "findBestDistrictPlacement" /\ outcome # Null)
    => LET candidates == Candidates(map, args.coord, args.districtType)
           total(coord) == PotentialTotal(map, coord, args.districtType)
           best == total(outcome.coord)
       IN  /\ outcome.coord \in candidates
           /\ outcome.bonus
                = calculatePotentialAdjacency(map, outcome.coord,
                                              args.districtType).value
           /\ \A coord \in candidates :
                /\ total(coord) <= best
                /\ (total(coord) = best /\ coord # outcome.coord)
                     => EnumeratedBefore(outcome.coord, coord)

\* The search for a Campus around (0, 0) with a Mountain at (3, 0) has
\* returned (2, 0) with a science total of 1: (0, 0), enumerated earlier,
\* has a total of 0, and (2, 1), enumerated later, has a total of 1 too.
C14_Witness ==
  /\ args # Null
  /\ args.op = "findBestDistrictPlacement"
  /\ args.coord = Origin
  /\ args.districtType = CAMPUS
  /\ outcome # Null
  /\ outcome.coord = [q |-> 2, r |-> 0]
  /\ outcome.bonus.totalBonus.science = 1
  /\ PotentialTotal(map, Origin, CAMPUS) = 0
  /\ PotentialTotal(map, [q |-> 2, r |-> 1], CAMPUS) = 1

\* C15: calculatePotentialAdjacency returns null exactly when the map has
\* no tile at the coordinate, findBestDistrictPlacement returns null
\* exactly when no tile within distance 3 of the city center is eligible,
\* and neither call throws.
C15_NotFoundIsNull ==
  /\ ~threw
  /\ (args # Null /\ args.op = "calculatePotentialAdjacency")
       => (outcome = Null <=> args.coord \notin Coords(map))
  /\ (args # Null /\ args.op = "findBestDistrictPlacement")
       => (outcome = Null
             <=> Candidates(map, args.coord, args.districtType) = {})

\* The search for a Harbor around (0, 0) has returned null on a map whose
\* only water is at (3, 1), at distance 4, while calculatePotentialAdjacency
\* of (3, 1) would return a result and of (4, 0) null.
C15_Witness ==
  /\ args # Null
  /\ args.op = "findBestDistrictPlacement"
  /\ args.coord = Origin
  /\ args.districtType = HARBOR
  /\ outcome = Null
  /\ getTile(map, [q |-> 3, r |-> 1]).terrain = COAST
  /\ calculatePotentialAdjacency(map, [q |-> 3, r |-> 1], HARBOR).value # Null
  /\ calculatePotentialAdjacency(map, [q |-> 4, r |-> 0], HARBOR).value = Null

\* The sum of one yield field over the totalBonus of the first n districts.
RECURSIVE ListedSum(_, _, _)
ListedSum(districts, key, n) ==
  IF n = 0
  THEN 0
  ELSE ListedSum(districts, key, n - 1) + districts[n].totalBonus[key]

\* What C16 and its amended form say of a calculateCityAdjacency result,
\* given the district types that count as listed.
CityAdjacencyLists(listedTypes) ==
  (args # Null /\ args.op = "calculateCityAdjacency")
    => LET districts == outcome.districts
           listed == {districts[i].tile.coord : i \in 1..Len(districts)}
           expected ==
             {coord \in Coords(map) :
                /\ distance(args.coord, coord) <= 3
                /\ getTile(map, coord).district \in listedTypes}
       IN  /\ listed = expected
           /\ Len(districts) = Cardinality(expected)
           /\ \A i \in 1..Len(districts) :
                /\ districts[i].districtType # CITY_CENTER
                /\ districts[i].tile = getTile(map, districts[i].tile.coord)
           /\ \A key \in YieldFields :
                outcome.totalYields[key]
                  = ListedSum(districts, key, Len(districts))

\* C16: calculateCityAdjacency(cityCenter) lists, once each, exactly the
\* tiles within distance 3 of cityCenter that hold a specialty district,
\* never a City Center, and its totalYields is in each of the six yield
\* fields the sum of the totalBonus of the listed districts.
C16_CityAdjacencyListsSpecialtyDistricts ==
  CityAdjacencyLists({district \in DistrictType :
                        DISTRICT_DATA(district).isSpecialty})

\* C16 as amended: the listed tiles are exactly the tiles within distance 3
\* that hold any district other than the City Center, specialty or not.
C16_CityAdjacencyListsOtherDistricts ==
  CityAdjacencyLists(DistrictType \ {NONE, CITY_CENTER})

\* calculateCityAdjacency around (0, 0) has listed one district, a Campus
\* next to a Mountain, and the science total of the city is 1.
C16_Witness ==
  /\ args # Null
  /\ args.op = "calculateCityAdjacency"
  /\ args.coord = Origin
  /\ Len(outcome.districts) = 1
  /\ outcome.districts[1].districtType = CAMPUS
  /\ outcome.totalYields.science = 1
  /\ \E coord \in Coords(map) : getTile(map, coord).modifier = MOUNTAIN

-----------------------------------------------------------------------------
(* SpecDistrict: a 3 x 3 map with one district and, on up to MaxPainted of *)
(* the six tiles around (1, 1), what the adjacency rules look at; and      *)
(* calculateDistrictAdjacency of the district's tile                       *)

MaxPainted == 3

\* The tile t after the mutator calls that make it a neighbour of the kind.
PaintedTile(t, kind) ==
  CASE kind = MOUNTAIN -> setTerrain(t, GRASS, MOUNTAIN).tile
    [] kind = RAINFOREST
         -> setFeature(setTerrain(t, PLAINS, FLAT).tile, RAINFOREST).tile
    [] kind = GEOTHERMAL_FISSURE -> setFeature(t, GEOTHERMAL_FISSURE).tile
    [] kind = REEF -> setFeature(setTerrain(t, COAST, FLAT).tile, REEF).tile
    [] kind = HARBOR -> setDistrict(setTerrain(t, COAST, FLAT).tile, HARBOR).tile
    [] kind = WOODS -> setFeature(t, WOODS).tile
    [] kind = CRATER_LAKE -> setNaturalWonder(t, CRATER_LAKE).tile
    [] kind = STONEHENGE -> setWonder(t, STONEHENGE).tile
    [] kind \in {MINE, QUARRY} -> setImprovement(t, kind).tile
    [] kind \in {IRON, DYES} -> setResource(t, kind).tile
    [] kind = "crabs"
         -> setResource(setTerrain(t, COAST, FLAT).tile, "crabs").tile
    [] kind = "river" -> addRiverEdge(t, 0).tile
    [] kind = "rivers" -> addRiverEdge(addRiverEdge(t, 0).tile, 3).tile
    [] OTHER -> setDistrict(t, kind).tile

\* The district whose adjacency is calculated: in the middle of the map or
\* in its corner, a Commercial Hub also with one or two river edges; and
\* what its rules can meet on the tiles around the middle.
DistrictSites ==
  {[coord |-> [q |-> 1, r |-> 1], kinds |-> <<CAMPUS>>,
    around |-> {MOUNTAIN, RAINFOREST, GEOTHERMAL_FISSURE, REEF, CAMPUS,
                HARBOR, GOVERNMENT_PLAZA}],
   [coord |-> Origin, kinds |-> <<CAMPUS>>,
    around |-> {MOUNTAIN, RAINFOREST, CAMPUS, GOVERNMENT_PLAZA}]}
  \cup {[coord |-> [q |-> 1, r |-> 1], kinds |-> kinds,
         around |-> {MOUNTAIN, CAMPUS, HARBOR, GOVERNMENT_PLAZA}] :
          kinds \in {<<COMMERCIAL_HUB>>, <<COMMERCIAL_HUB, "river">>,
                     <<COMMERCIAL_HUB, "rivers">>}}
  \cup {[coord |-> [q |-> 1, r |-> 1], kinds |-> <<"canal">>,
         around |-> {CAMPUS, GOVERNMENT_PLAZA}]}

\* new GameMap(3, 3): every tile of it is grassland without a district.
DistrictMap == NewGameMap(3, 3, DefaultName)

\* The map after the mutator calls that place one of the sites and paint
\* up to MaxPainted of the tiles around the middle.
InitPainted(sites) ==
  /\ tile = NewTile(Origin)
  /\ call = NoCall
  /\ threw = FALSE
  /\ \E site \in sites, painted \in SUBSET (1..6) :
       /\ Cardinality(painted) <= MaxPainted
       /\ \E kinds \in [painted -> site.around] :
            LET constructed == DistrictMap
                around == getNeighbors([q |-> 1, r |-> 1])
                placed(t) ==
                  IF t.coord = site.coord
                  THEN IF Len(site.kinds) = 1
                       THEN PaintedTile(t, site.kinds[1])
                       ELSE PaintedTile(PaintedTile(t, site.kinds[1]),
                                        site.kinds[2])
                  ELSE IF \E d \in painted : around[d] = t.coord
                  THEN PaintedTile(
                         t, kinds[CHOOSE d \in painted : around[d] = t.coord])
                  ELSE t
            IN  map = [constructed EXCEPT
                         !.tiles = [i \in 1..Len(constructed.tiles) |->
                                      [constructed.tiles[i] EXCEPT
                                         !.value = placed(@)]]]
  /\ loaded = <<>>
  /\ edits = 0
  /\ found = NoLookup
  /\ snapshot = Null
  /\ args = Null
  /\ outcome = Null
  /\ InitHook

InitDistrict == InitPainted(DistrictSites)

\* calculateDistrictAdjacency of the tile of the site.
CalculateSiteAdjacency ==
  \E i \in 1..Len(map.tiles) :
    LET t == map.tiles[i].value
    IN  /\ t.coord \in {[q |-> 1, r |-> 1], Origin}
        /\ (t.coord = Origin) = (getTile(map, Origin).district # NONE)
        /\ EngineCall("calculateDistrictAdjacency", t.coord, t.district,
                      calculateDistrictAdjacency(map, t), map)

NextDistrict == CalculateSiteAdjacency

SpecDistrict == InitDistrict /\ [][NextDistrict]_vars

\* The tiles of the map on the six hexes around coord.
Adjacent(coord) ==
  {t \in {map.tiles[i].value : i \in 1..Len(map.tiles)} :
     <<t.coord.q - coord.q, t.coord.r - coord.r>>
       \in {<<1, 0>>, <<0, 1>>, <<-1, 1>>, <<-1, 0>>, <<0, -1>>, <<1, -1>>}}

AdjacentCount(coord, test(_)) == Cardinality({t \in Adjacent(coord) : test(t)})

PlazaCount(coord) ==
  AdjacentCount(coord, LAMBDA t : t.district = GOVERNMENT_PLAZA)

\* M + floor((R + D) / 2) + 2 * G + 2 * F around coord.
CampusScience(coord) ==
  AdjacentCount(coord, LAMBDA t : t.modifier = MOUNTAIN)
  + (AdjacentCount(coord, LAMBDA t : t.feature = RAINFOREST)
     + AdjacentCount(coord, LAMBDA t : t.district # NONE)) \div 2
  + 2 * AdjacentCount(coord, LAMBDA t : t.feature = GEOTHERMAL_FISSURE)
  + 2 * AdjacentCount(coord, LAMBDA t : t.feature = REEF)

\* (2 if the tile at coord has a river edge) + 2 * H + floor(D / 2).
CommercialHubGold(coord) ==
  (IF getTile(map, coord).riverEdges # <<>> THEN 2 ELSE 0)
  + 2 * AdjacentCount(coord, LAMBDA t : t.district = HARBOR)
  + AdjacentCount(coord, LAMBDA t : t.district # NONE) \div 2

DistrictResult == args # Null /\ args.op = "calculateDistrictAdjacency"

GovernmentPlazaItems ==
  SelectSeq(outcome.bonusBreakdown, LAMBDA b : b.source = "Government Plaza")

\* What C17 and its amended form say of a calculateDistrictAdjacency result,
\* given which rule table entries are entitled to the Government Plaza item.
GovernmentPlazaRule(entitled(_)) ==
  DistrictResult
    => LET info == DISTRICT_DATA(args.districtType)
           rules == CASE args.districtType = CAMPUS
                           -> CampusScience(args.coord)
                      [] args.districtType = COMMERCIAL_HUB
                           -> CommercialHubGold(args.coord)
                      [] OTHER -> 0
       IN  /\ (PlazaCount(args.coord) > 0 /\ entitled(info))
                => /\ Len(GovernmentPlazaItems) = 1
                   /\ GovernmentPlazaItems[1].amount = 1
                   /\ GovernmentPlazaItems[1].yieldType
                        = info.primaryYieldType[1]
                   /\ outcome.totalBonus
                        = [EMPTY_YIELDS EXCEPT
                             ![info.primaryYieldType[1]] = rules + 1]
           /\ PlazaCount(args.coord) = 0 => GovernmentPlazaItems = <<>>

C18_CampusScienceTotal ==
  (DistrictResult /\ args.districtType = CAMPUS /\ PlazaCount(args.coord) = 0)
    => /\ outcome.totalBonus
            = [EMPTY_YIELDS EXCEPT !.science = CampusScience(args.coord)]
       /\ ( /\ AdjacentCount(args.coord, LAMBDA t : t.modifier = MOUNTAIN) = 2
            /\ CampusScience(args.coord) = 2 )
            => outcome.bonusBreakdown
                 = <<[districtType |-> CAMPUS, yieldType |-> "science",
                      amount |-> 2, source |-> "2 Mountain(s)"]>>

\* A Campus next to one Rainforest and one district and to no Government
\* Plaza has got 1 science: the two count as one pair.
C18_Witness ==
  /\ DistrictResult
  /\ args.districtType = CAMPUS
  /\ PlazaCount(args.coord) = 0
  /\ AdjacentCount(args.coord, LAMBDA t : t.feature = RAINFOREST) = 1
  /\ AdjacentCount(args.coord, LAMBDA t : t.district # NONE) = 1
  /\ outcome.totalBonus.science = 1

-----------------------------------------------------------------------------
(* SpecRange: HexUtils.getHexesInRange of a center and a range *)

MaxRange == 3

InitRange ==
  /\ tile = NewTile(Origin)
  /\ call = NoCall
  /\ threw = FALSE
  /\ map = NewGameMap(0, 0, DefaultName)
  /\ loaded = <<>>
  /\ edits = 0
  /\ found = NoLookup
  /\ snapshot = Null
  /\ \E center \in Coordinates, range \in 0..MaxRange :
       args = [center |-> center, range |-> range]
  /\ outcome = Null
  /\ InitHook

GetHexesInRange ==
  /\ outcome = Null
  /\ outcome' = [results |-> getHexesInRange(args.center, args.range)]
  /\ UNCHANGED <<tile, call, threw, map, loaded, edits, found, snapshot, args, hook>>

NextRange == GetHexesInRange

SpecRange == InitRange /\ [][NextRange]_vars

\* C21: getHexesInRange(c, n), n >= 0, holds exactly the coordinates at
\* distance at most n from c, each once, so 1 + 3n(n + 1) of them, and
\* getHexesInRange(c, 0) is [c].
C21_HexesInRangeIsTheDisc ==
  outcome # Null
    => LET results == outcome.results
           n == args.range
           abs(x) == IF x < 0 THEN 0 - x ELSE x
           near(q, r) == /\ abs(q - args.center.q) <= n
                         /\ abs(r - args.center.r) <= n
                         /\ abs((q - args.center.q) + (r - args.center.r)) <= n
           disc == {[q |-> q, r |-> r] :
                      <<q, r>> \in
                        {<<q, r>> \in ((args.center.q - n - 1)
                                         ..(args.center.q + n + 1))
                                      \X ((args.center.r - n - 1)
                                            ..(args.center.r + n + 1)) :
                           near(q, r)}}
       IN  /\ {results[k] : k \in 1..Len(results)} = disc
           /\ \A j, k \in 1..Len(results) : results[j] = results[k] => j = k
           /\ Len(results) = 1 + 3 * n * (n + 1)
           /\ n = 0 => results = <<args.center>>

\* The 19 hexes within range 2 of (1, -1) have been listed, the center and
\* a hex of the outer ring among them.
C21_Witness ==
  /\ outcome # Null
  /\ args.range = 2
  /\ args.center = [q |-> 1, r |-> 0 - 1]
  /\ Len(outcome.results) = 19
  /\ \E j, k \in 1..19 : /\ outcome.results[j] = args.center
                         /\ outcome.results[k] = [q |-> 3, r |-> 0 - 3]

-----------------------------------------------------------------------------
(* SpecIndustry: an Industrial Zone in the middle of the 3 x 3 map and     *)
(* what its rule looks at around it                                        *)

IndustrySites ==
  {[coord |-> [q |-> 1, r |-> 1], kinds |-> <<INDUSTRIAL_ZONE>>,
    around |-> {MINE, QUARRY, "aqueduct", "dam", "canal", CAMPUS, IRON, DYES,
                GOVERNMENT_PLAZA}]}

InitIndustry == InitPainted(IndustrySites)

SpecIndustry == InitIndustry /\ [][NextDistrict]_vars

\* Mi + Q + 2 * (A + Da + C) + floor(D / 2) + S around coord.
IndustrialZoneProduction(coord) ==
  AdjacentCount(coord, LAMBDA t : t.improvement = MINE)
  + AdjacentCount(coord, LAMBDA t : t.improvement = QUARRY)
  + 2 * (AdjacentCount(coord, LAMBDA t : t.district = "aqueduct")
         + AdjacentCount(coord, LAMBDA t : t.district = "dam")
         + AdjacentCount(coord, LAMBDA t : t.district = "canal"))
  + AdjacentCount(coord, LAMBDA t : t.district # NONE) \div 2
  + AdjacentCount(coord, LAMBDA t : t.resource \in {"horses", "iron", "niter",
                                                    "coal", "oil", "aluminum",
                                                    "uranium"})

\* C22: for an Industrial Zone with no adjacent Government Plaza the
\* production total is Mi + Q + 2 * (A + Da + C) + floor(D / 2) + S: Mines,
\* Quarries, twice the Aqueducts, Dams and Canals, half the districts
\* (Aqueducts, Dams and Canals among them) and the Strategic resources.
C22_IndustrialZoneProductionTotal ==
  ( /\ DistrictResult
    /\ args.districtType = INDUSTRIAL_ZONE
    /\ PlazaCount(args.coord) = 0 )
    => outcome.totalBonus.production = IndustrialZoneProduction(args.coord)

\* An Industrial Zone next to a Dam, a Canal and an Iron tile has got 6
\* production: 4 for the Dam and the Canal, 1 for the pair of districts and
\* 1 for the Iron.
C22_Witness ==
  /\ DistrictResult
  /\ args.districtType = INDUSTRIAL_ZONE
  /\ PlazaCount(args.coord) = 0
  /\ AdjacentCount(args.coord, LAMBDA t : t.district = "dam") = 1
  /\ AdjacentCount(args.coord, LAMBDA t : t.district = "canal") = 1
  /\ AdjacentCount(args.coord, LAMBDA t : t.resource = IRON) = 1
  /\ outcome.totalBonus.production = 6

-----------------------------------------------------------------------------
(* SpecBreakdown: a tile of every kind that calculateDistrictAdjacency     *)
(* tells apart, in the middle of the 3 x 3 map, and what its rule, if it   *)
(* has one, looks at around it                                             *)

BreakdownSites ==
  {[coord |-> [q |-> 1, r |-> 1], kinds |-> <<site[1]>>, around |-> site[2]] :
     site \in
       {<<HOLY_SITE, {MOUNTAIN, WOODS, CRATER_LAKE, CAMPUS, GOVERNMENT_PLAZA}>>,
        <<THEATER_SQUARE, {STONEHENGE, CAMPUS, GOVERNMENT_PLAZA}>>,
        <<HARBOR, {"crabs", CITY_CENTER, CAMPUS, GOVERNMENT_PLAZA}>>,
        <<CAMPUS, {MOUNTAIN, RAINFOREST, GOVERNMENT_PLAZA}>>,
        <<COMMERCIAL_HUB, {HARBOR, CAMPUS, GOVERNMENT_PLAZA}>>,
        <<INDUSTRIAL_ZONE, {MINE, "dam", IRON, GOVERNMENT_PLAZA}>>,
        <<NONE, {MOUNTAIN, CAMPUS, GOVERNMENT_PLAZA}>>,
        <<CITY_CENTER, {MOUNTAIN, CAMPUS, GOVERNMENT_PLAZA}>>,
        <<"preserve", {MOUNTAIN, CAMPUS, GOVERNMENT_PLAZA}>>,
        <<GOVERNMENT_PLAZA, {MOUNTAIN, CAMPUS, GOVERNMENT_PLAZA}>>}}

InitBreakdown == InitPainted(BreakdownSites)

SpecBreakdown == InitBreakdown /\ [][NextDistrict]_vars

\* The sum of the amounts of the first n items whose yield type is key.
RECURSIVE ItemSum(_, _, _)
ItemSum(items, key, n) ==
  IF n = 0
  THEN 0
  ELSE ItemSum(items, key, n - 1)
       + (IF items[n].yieldType = key THEN items[n].amount ELSE 0)

\* C23: in every DistrictAdjacencyResult each line item has a strictly
\* positive integer amount, totalBonus is in each of the six yield fields
\* the sum of the amounts of the items of that yield type, and a tile whose
\* district is None, City Center, Preserve or Government Plaza has an empty
\* breakdown.
C23_BreakdownSumsToTotal ==
  DistrictResult
    => LET items == outcome.bonusBreakdown
       IN  /\ \A n \in 1..Len(items) : items[n].amount \in Nat \ {0}
           /\ \A key \in YieldFields :
                outcome.totalBonus[key] = ItemSum(items, key, Len(items))
           /\ args.districtType
                \in {NONE, CITY_CENTER, "preserve", GOVERNMENT_PLAZA}
                => items = <<>>

\* A Holy Site next to a Mountain, a Natural Wonder and a Government Plaza
\* has got three items, 1 + 2 + 1 faith, and no item for its one district.
C23_Witness ==
  /\ DistrictResult
  /\ args.districtType = HOLY_SITE
  /\ Len(outcome.bonusBreakdown) = 3
  /\ \A n \in 1..3 : outcome.bonusBreakdown[n].amount = <<1, 2, 1>>[n]
  /\ outcome.totalBonus = [EMPTY_YIELDS EXCEPT !.faith = 4]

-----------------------------------------------------------------------------
(* SpecCandidates: findBestDistrictPlacement on a map with water, Mountains *)
(* and districts, with the tiles it evaluates a placement for              *)

\* One mutator call on a tile of the map: water, a Mountain or a district.
EditCandidateTile ==
  /\ edits < MaxEngineEdits
  /\ \E i \in 1..Len(map.tiles) :
       LET t == map.tiles[i].value
       IN  \E edited \in {setTerrain(t, GRASS, MOUNTAIN),
                          setTerrain(t, COAST, FLAT),
                          setTerrain(t, OCEAN, FLAT),
                          setDistrict(t, CAMPUS)} :
             map' = [map EXCEPT !.tiles[i].value = edited.tile]
  /\ edits' = edits + 1
  /\ args' = Null
  /\ outcome' = Null
  /\ UNCHANGED <<tile, call, threw, loaded, found, snapshot, hook>>

\* findBestDistrictPlacement around (0, 0), for a district of each kind of
\* terrain requirement and for one that the rule table does not know.
FindPlacementCandidates ==
  \E districtType \in {NONE, CITY_CENTER, CAMPUS, HARBOR, WATER_PARK,
                       "aqueduct", "canal", GOVERNMENT_PLAZA, "castle"} :
    LET best == findBestDistrictPlacement(map, Origin, districtType)
    IN  EngineCall("findBestDistrictPlacement", Origin, districtType,
                   [value |-> best.value,
                    candidates |->
                      validPlacementTiles(map, Origin, districtType)],
                   best.map)

NextCandidates == EditCandidateTile \/ FindPlacementCandidates

SpecCandidates == InitEngine /\ [][NextCandidates]_vars

\* C24: every tile for which findBestDistrictPlacement evaluates a
\* hypothetical placement is one on which setDistrict(districtType) would
\* succeed: never a Mountain, and never a Coast or Ocean tile for a
\* district other than Harbor and Water Park.
C24_CandidatesAcceptTheDistrict ==
  (args # Null /\ args.op = "findBestDistrictPlacement")
    => \A n \in 1..Len(outcome.candidates) :
         LET candidate == outcome.candidates[n]
         IN  /\ ~setDistrict(candidate, args.districtType).threw
             /\ candidate.modifier # MOUNTAIN
             /\ (candidate.terrain \in {COAST, OCEAN}
                 /\ args.districtType # NONE)
                  => args.districtType \in {HARBOR, WATER_PARK}

\* A search for a Harbor on a map with one Coast and one Ocean tile has
\* evaluated exactly these two.
C24_Witness ==
  /\ args # Null
  /\ args.op = "findBestDistrictPlacement"
  /\ args.districtType = HARBOR
  /\ {outcome.candidates[n].terrain : n \in 1..Len(outcome.candidates)}
       = {COAST, OCEAN}
  /\ Len(outcome.candidates) = 2

\* What C25 and its amended form say of a findBestDistrictPlacement result,
\* given the order in which the candidates are said to be met: of the
\* eligible candidates with the largest total, the first one is returned.
TieGoesToFirst(Before(_, _)) ==
  (args # Null /\ args.op = "findBestDistrictPlacement" /\ outcome # Null)
    => LET tied == {coord \in Candidates(map, args.coord, args.districtType) :
                      PotentialTotal(map, coord, args.districtType)
                        = PotentialTotal(map, outcome.coord,
                                         args.districtType)}
       IN  \A coord \in tied \ {outcome.coord} : Before(outcome.coord, coord)

\* C25: when several eligible candidates tie for the maximum score,
\* findBestDistrictPlacement returns the one that comes first in the map's
\* own tile order, that of getAllTiles and of the snapshot's tiles: rows r
\* ascending, q ascending within a row.
C25_TieGoesToFirstInMapOrder ==
  TieGoesToFirst(LAMBDA c, d : c.r < d.r \/ (c.r = d.r /\ c.q < d.q))

\* C25 as amended: the tie goes to the candidate that comes first in the
\* order of getHexesInRange around the city center: q ascending, r
\* ascending within one q.
C25_TieGoesToFirstInRangeOrder ==
  TieGoesToFirst(LAMBDA c, d : c.q < d.q \/ (c.q = d.q /\ c.r < d.r))

\* The search for a Campus around (0, 0) with a Mountain at (2, 1) has
\* returned (1, 1), though (2, 0), in the row above it, has 1 science too.
C25_Witness ==
  /\ args # Null
  /\ args.op = "findBestDistrictPlacement"
  /\ args.coord = Origin
  /\ args.districtType = CAMPUS
  /\ outcome # Null
  /\ outcome.coord = [q |-> 1, r |-> 1]
  /\ getTile(map, [q |-> 2, r |-> 1]).modifier = MOUNTAIN
  /\ PotentialTotal(map, [q |-> 1, r |-> 1], CAMPUS) = 1
  /\ PotentialTotal(map, [q |-> 2, r |-> 0], CAMPUS) = 1

-----------------------------------------------------------------------------
(* useMapState: the map of the editor with its undo and redo history. Each *)
(* handler runs in the render that follows the one before it. The view     *)
(* state of the hook (zoom, pan, the active coordinate, the adjacency      *)
(* result) is left out: no handler below reads it.                         *)

MAX_HISTORY_SIZE == 50

\* JSON.stringify(toJSON()): the text is held as the data it spells. The
\* data of a map holds strings, numbers, booleans, null, arrays and objects,
\* and an absent property is an undefined one, so JSON.parse gives it back.
exportToString(m) == GameMapToJSON(m)

importFromString(jsonString) == GameMapFromJSON(jsonString)

\* restoredMap.findCityCenter()?.coord || null
findCityCenter(m) ==
  LET allTiles == getAllTiles(m)
      flagged == {i \in 1..Len(allTiles) : allTiles[i].isCityCenter}
  IN  IF flagged = {}
      THEN Null
      ELSE allTiles[CHOOSE i \in flagged : \A j \in flagged : i <= j].coord

\* A faulty variant: the first MAX_HISTORY_SIZE snapshots are kept.
saveToHistoryKeepsOldest(stack, m) ==
  LET newStack == Append(stack, exportToString(m))
  IN  IF Len(newStack) > MAX_HISTORY_SIZE
      THEN SubSeq(newStack, 1, MAX_HISTORY_SIZE)
      ELSE newStack

\* The undo stack as saveToHistory leaves it, called with the map m of the
\* render: newStack.slice(-MAX_HISTORY_SIZE).
saveToHistory(stack, m) ==
  LET newStack == Append(stack, exportToString(m))
  IN  IF Len(newStack) > MAX_HISTORY_SIZE
      THEN SubSeq(newStack, Len(newStack) - MAX_HISTORY_SIZE + 1,
                  Len(newStack))
      ELSE newStack

\* A handler of the hook has run: its name, whether it saved history, the
\* handler that ran before it ("" for none, and whether that one found a
\* snapshot to restore), and the map and the stacks of the render it ran in.
HookCall(op, saved, mapAfter, undoAfter, redoAfter, cityCenterAfter) ==
  /\ args' = [op |-> op,
              saved |-> saved,
              after |-> IF args = Null THEN "" ELSE args.op,
              afterRestore |-> /\ args # Null
                               /\ \/ /\ args.op = "undo"
                                     /\ Len(args.before.undoStack) > 0
                                  \/ /\ args.op = "redo"
                                     /\ Len(args.before.redoStack) > 0,
              before |-> [map |-> GameMapToJSON(map),
                          undoStack |-> undoStack,
                          redoStack |-> redoStack]]
  /\ map' = mapAfter
  /\ undoStack' = undoAfter
  /\ redoStack' = redoAfter
  /\ cityCenterState' = cityCenterAfter
  /\ UNCHANGED <<tile, call, threw, loaded, found, snapshot, outcome,
                 selectedCoords>>

\* A faulty variant: the redo stack outlives the edit.
setMapWithHistoryKeepsRedo(op, mutated, cityCenterAfter) ==
  HookCall(op, TRUE, GameMapFromJSON(GameMapToJSON(mutated)),
           saveToHistory(undoStack, mutated), redoStack, cityCenterAfter)

\* setMapWithHistory(prevMap => GameMap.fromJSON(prevMap.toJSON())) after the
\* tiles of the map of the render were mutated in place into mutated: the
\* map that saveToHistory exports and the prevMap of the updater are that
\* same object.
setMapWithHistory(op, mutated, cityCenterAfter) ==
  HookCall(op, TRUE, GameMapFromJSON(GameMapToJSON(mutated)),
           saveToHistory(undoStack, mutated), <<>>, cityCenterAfter)

\* updateTile(coord, updater): nothing without a tile at coord; the updater
\* mutates the tile of the map in place, and if it throws nothing follows.
updateTile(op, coord, updater(_)) ==
  LET t == getTile(map, coord)
      updated == updater(t)
      mutated == [map EXCEPT
                    !.tiles = MapSet(@, coordToKey(coord), updated.tile)]
  IN  IF t = Undefined
      THEN HookCall(op, FALSE, map, undoStack, redoStack, cityCenterState)
      ELSE IF updated.threw
      THEN HookCall(op, FALSE, mutated, undoStack, redoStack, cityCenterState)
      ELSE setMapWithHistory(op, mutated, cityCenterState)

setTileTerrain(coord, terrain, modifier) ==
  updateTile("setTileTerrain", coord,
             LAMBDA t : setTerrain(t, terrain, modifier))

setTileFeature(coord, feature) ==
  updateTile("setTileFeature", coord, LAMBDA t : setFeature(t, feature))

setTileResource(coord, resource) ==
  updateTile("setTileResource", coord, LAMBDA t : setResource(t, resource))

setTileDistrict(coord, district) ==
  updateTile("setTileDistrict", coord, LAMBDA t : setDistrict(t, district))

setTileWonder(coord, wonder) ==
  updateTile("setTileWonder", coord, LAMBDA t : setWonder(t, wonder))

toggleRiverEdge(coord, edge) ==
  updateTile("toggleRiverEdge", coord,
             LAMBDA t : IF SetHas(t.riverEdges, edge)
                        THEN removeRiverEdge(t, edge)
                        ELSE addRiverEdge(t, edge))

\* The loop of updateSelectedTiles over the first n selected coordinates,
\* with tile.setTerrain(terrain, modifier) as the updater: the map as the
\* loop leaves it, and whether a call threw and ended it.
RECURSIVE UpdateSelectedLoop(_, _, _, _, _)
UpdateSelectedLoop(m, coords, n, terrain, modifier) ==
  IF n = 0
  THEN [map |-> m, threw |-> FALSE]
  ELSE LET done == UpdateSelectedLoop(m, coords, n - 1, terrain, modifier)
           t == getTile(done.map, coords[n])
           updated == setTerrain(t, terrain, modifier)
       IN  IF done.threw \/ t = Undefined
           THEN done
           ELSE [map |-> [done.map EXCEPT
                            !.tiles = MapSet(@, coordToKey(coords[n]),
                                             updated.tile)],
                 threw |-> updated.threw]

setSelectedTilesTerrain(terrain, modifier) ==
  LET done == UpdateSelectedLoop(map, selectedCoords, Len(selectedCoords),
                                 terrain, modifier)
  IN  IF Len(selectedCoords) = 0
      THEN HookCall("setSelectedTilesTerrain", FALSE, map, undoStack,
                    redoStack, cityCenterState)
      ELSE IF done.threw
      THEN HookCall("setSelectedTilesTerrain", FALSE, done.map, undoStack,
                    redoStack, cityCenterState)
      ELSE setMapWithHistory("setSelectedTilesTerrain", done.map,
                             cityCenterState)

setSelection(coords) ==
  /\ selectedCoords' = coords
  /\ args' = [op |-> "setSelection",
              saved |-> FALSE,
              before |-> [map |-> GameMapToJSON(map),
                          undoStack |-> undoStack,
                          redoStack |-> redoStack]]
  /\ UNCHANGED <<tile, call, threw, map, loaded, edits, found, snapshot,
                 outcome, undoStack, redoStack, cityCenterState>>

\* setCityCenter(coord): the old city center tile loses its owner and its
\* district, the new one is owned by 'city1' as its center, all in place.
setCityCenter(coord) ==
  LET oldTile == IF cityCenterState = Null
                 THEN Undefined
                 ELSE getTile(map, cityCenterState)
      cleared ==
        IF oldTile = Undefined
        THEN map
        ELSE [map EXCEPT
                !.tiles = MapSet(@, coordToKey(cityCenterState),
                                 setDistrict(setOwner(oldTile, Null,
                                                      FALSE).tile,
                                             NONE).tile)]
      newTile == IF coord = Null THEN Undefined ELSE getTile(cleared, coord)
      mutated ==
        IF newTile = Undefined
        THEN cleared
        ELSE [cleared EXCEPT
                !.tiles = MapSet(@, coordToKey(coord),
                                 setOwner(newTile, <<"city1">>, TRUE).tile)]
  IN  setMapWithHistory("setCityCenter", mutated, coord)

undo ==
  IF Len(undoStack) = 0
     THEN HookCall("undo", FALSE, map, undoStack, redoStack, cityCenterState)
     ELSE LET prevSnapshot == undoStack[Len(undoStack)]
              throws == GameMapFromJSONThrows(prevSnapshot)
              restoredMap == importFromString(prevSnapshot)
          IN  HookCall("undo", FALSE,
                       IF throws THEN map ELSE restoredMap,
                       SubSeq(undoStack, 1, Len(undoStack) - 1),
                       Append(redoStack, exportToString(map)),
                       IF throws
                       THEN cityCenterState
                       ELSE findCityCenter(restoredMap))

redo ==
  IF Len(redoStack) = 0
     THEN HookCall("redo", FALSE, map, undoStack, redoStack, cityCenterState)
     ELSE LET nextSnapshot == redoStack[Len(redoStack)]
              throws == GameMapFromJSONThrows(nextSnapshot)
              restoredMap == importFromString(nextSnapshot)
          IN  HookCall("redo", FALSE,
                       IF throws THEN map ELSE restoredMap,
                       Append(undoStack, exportToString(map)),
                       SubSeq(redoStack, 1, Len(redoStack) - 1),
                       IF throws
                       THEN cityCenterState
                       ELSE findCityCenter(restoredMap))

-----------------------------------------------------------------------------
(* SpecHistory: useMapState on a new 2 x 1 map, up to MaxHistoryEdits      *)
(* editing calls, and undo and redo between them                           *)

MaxHistoryEdits == 2

InitHistory ==
  /\ tile = NewTile(Origin)
  /\ call = NoCall
  /\ threw = FALSE
  /\ map = NewGameMap(2, 1, DefaultName)
  /\ loaded = <<>>
  /\ edits = 0
  /\ found = NoLookup
  /\ snapshot = Null
  /\ args = Null
  /\ outcome = Null
  /\ InitHook

\* One more editing call, while there are calls left.
EditingCall(Handler) ==
  /\ edits < MaxHistoryEdits
  /\ edits' = edits + 1
  /\ Handler

NextHistory ==
  \/ \E coord \in {Origin, [q |-> 1, r |-> 0], [q |-> 2, r |-> 0]} :
       EditingCall(setTileTerrain(coord, GRASS, HILLS))
  \/ \E feature \in {WOODS, REEF} :
       EditingCall(setTileFeature(Origin, feature))
  \/ EditingCall(setTileResource(Origin, IRON))
  \/ EditingCall(setTileDistrict(Origin, CAMPUS))
  \/ EditingCall(setTileWonder(Origin, STONEHENGE))
  \/ EditingCall(toggleRiverEdge(Origin, 0))
  \/ EditingCall(setSelectedTilesTerrain(PLAINS, FLAT))
  \/ EditingCall(setCityCenter([q |-> 1, r |-> 0]))
  \/ \E coords \in {<<Origin, [q |-> 1, r |-> 0]>>} :
       selectedCoords # coords /\ setSelection(coords)
  \/ (UNCHANGED edits /\ undo)
  \/ (UNCHANGED edits /\ redo)

SpecHistory == InitHistory /\ [][NextHistory]_vars

\* The handlers that C26 names: the edits of one tile and the bulk edit.
TileEdits ==
  {"setTileTerrain", "setTileFeature", "setTileResource", "setTileDistrict",
   "setTileWonder", "toggleRiverEdge", "setSelectedTilesTerrain"}

\* C26: after a successful tile edit immediately followed by undo, the map
\* is equal to the map as it was before that edit.
C26_UndoRestoresMapBeforeEdit ==
  [][(/\ args # Null
      /\ args.op \in TileEdits
      /\ args.saved
      /\ args'.op = "undo")
       => GameMapToJSON(map') = args.before.map]_vars

\* The parts of C28 that hold as stated: an edit that went through leaves
\* the redo stack empty, so that a redo right after it changes nothing, and
\* undo with an empty undo stack and redo with an empty redo stack change
\* nothing.
EditEmptiesRedoStack ==
  /\ args'.saved => redoStack' = <<>>
  /\ (args # Null /\ args.saved /\ args'.op = "redo")
       => UNCHANGED <<map, undoStack, redoStack, cityCenterState>>
  /\ (args'.op = "undo" /\ Len(undoStack) = 0)
       => UNCHANGED <<map, undoStack, redoStack, cityCenterState>>
  /\ (args'.op = "redo" /\ Len(redoStack) = 0)
       => UNCHANGED <<map, undoStack, redoStack, cityCenterState>>

\* The redo of this step gives back the map and the sizes of both stacks of
\* the render in which the handler before it ran.
RedoRestores ==
  /\ GameMapToJSON(map') = args.before.map
  /\ Len(undoStack') = Len(args.before.undoStack)
  /\ Len(redoStack') = Len(args.before.redoStack)

\* C28 as stated: every new edit empties the redo stack (redo right after an
\* edit is a no-op), undo with an empty undo stack and redo with an empty
\* redo stack change nothing, and undo immediately followed by redo restores
\* the map and the sizes of both stacks to what they were before the undo.
C28_UndoThenRedoRestores ==
  [][/\ EditEmptiesRedoStack
     /\ (args # Null /\ args.op = "undo" /\ args'.op = "redo")
          => RedoRestores
    ]_vars

\* C28, amended: every edit that goes through empties the redo stack (redo
\* right after it is a no-op), undo with an empty undo stack and redo with
\* an empty redo stack change nothing, and an undo that found a snapshot on
\* the undo stack, immediately followed by redo, restores the map and the
\* sizes of both stacks to what they were before the undo.
C28_EffectiveUndoThenRedoRestores ==
  [][/\ EditEmptiesRedoStack
     /\ (/\ args # Null
         /\ args.op = "undo"
         /\ Len(args.before.undoStack) > 0
         /\ args'.op = "redo")
          => RedoRestores
    ]_vars

\* A redo has run right after an undo that restored a snapshot, and it has
\* changed the map and moved a snapshot from the redo to the undo stack.
C28_Witness ==
  /\ args # Null
  /\ args.op = "redo"
  /\ args.after = "undo"
  /\ args.afterRestore
  /\ GameMapToJSON(map) # args.before.map
  /\ Len(undoStack) = Len(args.before.undoStack) + 1
  /\ Len(redoStack) = Len(args.before.redoStack) - 1
  /\ Len(redoStack) > 0

-----------------------------------------------------------------------------
(* SpecHistoryLimit: useMapState on a new 1 x 1 map, where toggleRiverEdge *)
(* is called as often as it takes to fill the history, with up to          *)
(* MaxHistoryMoves calls of undo and redo                                  *)

MaxHistoryMoves == 2

InitHistoryLimit ==
  /\ tile = NewTile(Origin)
  /\ call = NoCall
  /\ threw = FALSE
  /\ map = NewGameMap(1, 1, DefaultName)
  /\ loaded = <<>>
  /\ edits = 0
  /\ found = NoLookup
  /\ snapshot = Null
  /\ args = Null
  /\ outcome = Null
  /\ InitHook

\* One more call of undo or redo, while there are calls left.
HistoryMove(Handler) ==
  /\ edits < MaxHistoryMoves
  /\ edits' = edits + 1
  /\ Handler

NextHistoryLimit ==
  \/ (UNCHANGED edits /\ toggleRiverEdge(Origin, 0))
  \/ HistoryMove(undo)
  \/ HistoryMove(redo)

SpecHistoryLimit == InitHistoryLimit /\ [][NextHistoryLimit]_vars

\* C27: whatever the interleaving of edits, undo and redo, the undo stack
\* never holds more than MAX_HISTORY_SIZE snapshots, and an edit made when
\* it holds that many drops the oldest one.
C27_UndoStackBounded ==
  [][/\ Len(undoStack') <= MAX_HISTORY_SIZE
     /\ (args'.saved /\ Len(undoStack) = MAX_HISTORY_SIZE)
          => /\ Len(undoStack') = MAX_HISTORY_SIZE
             /\ SubSeq(undoStack', 1, MAX_HISTORY_SIZE - 1) = Tail(undoStack)
    ]_vars

\* An edit was made with a full undo stack, which is full again.
C27_Witness ==
  /\ args # Null
  /\ args.saved
  /\ Len(args.before.undoStack) = MAX_HISTORY_SIZE
  /\ Len(undoStack) = MAX_HISTORY_SIZE
  /\ undoStack[1] = args.before.undoStack[2]
  /\ undoStack[1] # args.before.undoStack[1]

-----------------------------------------------------------------------------
(* SpecPotential: a 3 x 3 map whose middle tile is open land, on a river,  *)
(* wooded, mined, a reef, a Mountain or already a Campus, with up to       *)
(* MaxPainted painted tiles around it; calculatePotentialAdjacency of a    *)
(* district there, next to calculateDistrictAdjacency after setDistrict    *)

\* The tile asked about and what the rules can meet around it.
PotentialSites ==
  {[coord |-> [q |-> 1, r |-> 1], kinds |-> <<kind>>,
    around |-> {MOUNTAIN, GOVERNMENT_PLAZA, "crabs"}] :
     kind \in {NONE, "river", WOODS, MINE, REEF, MOUNTAIN, CAMPUS}}

\* The district types asked about.
PotentialDistricts ==
  {CAMPUS, HOLY_SITE, COMMERCIAL_HUB, HARBOR, NONE, "castle"}

InitPotential == InitPainted(PotentialSites)

\* calculatePotentialAdjacency(coord, districtType) on the map, and, on a
\* map where setDistrict(districtType) has placed the district on the tile
\* at coord, calculateDistrictAdjacency of that tile; for the district
\* types that setDistrict accepts on the tile.
CalculatePotentialAndPlaced ==
  \E districtType \in PotentialDistricts :
    LET coord == [q |-> 1, r |-> 1]
        t == getTile(map, coord)
        potential == calculatePotentialAdjacency(map, coord, districtType)
        placing == setDistrict(t, districtType)
        placedMap == [map EXCEPT
                        !.tiles = MapSet(map.tiles, coordToKey(coord),
                                         placing.tile)]
    IN  /\ ~placing.threw
        /\ EngineCall("calculatePotentialAdjacency", coord, districtType,
                      [potential |-> potential.value,
                       placed |-> calculateDistrictAdjacency(
                                    placedMap, getTile(placedMap, coord))],
                      potential.map)

NextPotential == CalculatePotentialAndPlaced

SpecPotential == InitPotential /\ [][NextPotential]_vars

\* C29: for an existing tile and a district type that setDistrict accepts
\* on it, calculatePotentialAdjacency returns the bonusBreakdown and the
\* totalBonus that calculateDistrictAdjacency returns for the tile once
\* setDistrict has placed the district on it, the other tiles unchanged.
C29_PotentialIsPlacedAdjacency ==
  (args # Null /\ args.op = "calculatePotentialAdjacency")
    => /\ outcome.potential # Null
       /\ outcome.potential.bonusBreakdown = outcome.placed.bonusBreakdown
       /\ outcome.potential.totalBonus = outcome.placed.totalBonus

\* A Harbor asked about on a reef without a district, where setDistrict
\* removes the reef and the temporary tile keeps it: both results have at
\* least two items and 2 gold, as next to crabs and a Government Plaza.
C29_Witness ==
  /\ args # Null
  /\ args.op = "calculatePotentialAdjacency"
  /\ args.districtType = HARBOR
  /\ getTile(map, args.coord).feature = REEF
  /\ getTile(map, args.coord).district = NONE
  /\ outcome.placed.tile.feature = NONE
  /\ outcome.placed.tile.district = HARBOR
  /\ Len(outcome.potential.bonusBreakdown) >= 2
  /\ outcome.potential.totalBonus.gold >= 2

====
